---- MODULE Spec2Model ----
(***************************************************************************)
(* Syntra backend: the festival-token wallet service                       *)
(* (backend/src/services/festivalTokenService.ts) and the NFC interaction  *)
(* service (backend/src/services/nfcService.ts), over the document store   *)
(* declared in backend/src/models/index.ts.                                *)
(*                                                                         *)
(* Every request is handled by its own asynchronous task.  A task runs     *)
(* from one `await` to the next atomically; between two awaits any other   *)
(* task may run.  Each store call (find, create, update, $transaction) is  *)
(* one atomic step on the store and may fail (store fault).                *)
(***************************************************************************)
EXTENDS Integers, Sequences, FiniteSets, Bags, TLC

\* ------------------------------------------------------------------------
\* Bounds of the model
\* ------------------------------------------------------------------------
MaxEntries == 3      \* rows of the ledger, and of the purchase records
MaxNow == 1          \* last clock reading
TicksPerDay == 1     \* clock readings per calendar day
MaxInteractions == 2    \* NFC interactions received
MaxConfigurations == 1  \* device configurations published

\* ------------------------------------------------------------------------
\* Program constants
\* ------------------------------------------------------------------------
DailySpendLimit == 100   \* createWallet: dailySpendLimit: 100

\* ------------------------------------------------------------------------
\* Input domains
\* ------------------------------------------------------------------------
Tasks == {"t1", "t2"}
Users == {"u1", "u2"}
Events == {"e1", "e2"}
NoId == "-"

PurchaseAmounts == {105}
SpendAmounts == {10, 95}
RewardAmounts == {10}

\* What a spend request asks for: <<vendorId, productId, quantity>>;
\* vendor v0 and product p0 are not in the store
SpendTargets ==
  { <<"v1", NoId, 1>>, <<"v1", "p1", 1>>, <<"v1", "p1", 2>>,
    <<"v1", "p2", 1>>, <<"v1", "p3", 1>>, <<"v1", "p0", 1>>,
    <<"v2", NoId, 1>>, <<"v0", NoId, 1>> }

\* The requests of the concurrent runs: a vendor that accepts tokens, with
\* no product or with the product whose stock is tracked
CoreTargets == { <<"v1", NoId, 1>>, <<"v1", "p1", 1>>, <<"v1", "p1", 2>> }
CoreUsers == {"u1"}
CoreDevices == {"d1", "d3"}
CorePaymentAmounts == {10}

\* The vendor catalogue (FestivalVendorSchema): v1 and v3 accept tokens, v2
\* does not; v1 and v2 are vendors of event e1, v3 of event e2.
FestivalVendors ==
  [v \in {"v1", "v2", "v3"} |->
     [acceptsTokens |-> (v # "v2"),
      eventId |-> IF v = "v3" THEN "e2" ELSE "e1"]]

\* Products (FestivalVendorSchema.products): p1 has a tracked stock, p2 has
\* stock null (unlimited), p3 is not available.  All belong to v1.
InitProducts ==
  [p \in {"p1", "p2", "p3"} |->
     [vendorId |-> "v1",
      isAvailable |-> (p # "p3"),
      tracked |-> (p # "p2"),
      stock |-> IF p = "p2" THEN 0 ELSE 2]]

\* Device bindings (NFCDeviceSchema): d1 -> (u1, e1), d2 -> (u2, e2),
\* d3 exists but is bound to nobody.
InitDevices ==
  [d \in {"d1", "d2", "d3"} |->
     [userId |-> CASE d = "d1" -> "u1" [] d = "d2" -> "u2" [] OTHER -> NoId,
      eventId |-> CASE d = "d1" -> "e1" [] d = "d2" -> "e2" [] OTHER -> NoId,
      nfcData |-> CASE d = "d1" -> "u1" [] d = "d2" -> "u2" [] OTHER -> NoId]]

\* ------------------------------------------------------------------------
\* NFC interaction service: input domains and catalogue
\* ------------------------------------------------------------------------
Handlers == {"m1", "m2"}
Attendees == {"u1", "u2", "u3"}

\* Devices of the handshake runs: h1, h2, h3 are worn by u1, u2, u3 at e1,
\* h4 and h6 are the devices u1 and u2 wear at e2, h5 is bound to nobody.
HandshakeDevices ==
  [d \in {"h1", "h2", "h3", "h4", "h5", "h6"} |->
     [userId |-> CASE d = "h1" -> "u1" [] d = "h2" -> "u2" [] d = "h3" -> "u3"
                   [] d = "h4" -> "u1" [] d = "h6" -> "u2" [] OTHER -> NoId,
      eventId |-> CASE d \in {"h1", "h2", "h3"} -> "e1"
                   [] d \in {"h4", "h6"} -> "e2" [] OTHER -> NoId,
      nfcData |-> CASE d = "h1" -> "u1" [] d = "h2" -> "u2" [] d = "h3" -> "u3"
                   [] d = "h4" -> "u1" [] d = "h6" -> "u2" [] OTHER -> NoId]]

\* attendeeProfile.interests of each user
Interests ==
  [u \in Attendees |->
     CASE u = "u1" -> {"ai", "startups"}
       [] u = "u2" -> {"ai", "marketing"}
       [] OTHER -> {}]

\* Achievement rows: conditions {type, minConnections} and rewards.tokens;
\* a2 carries no token reward
Achievements ==
  [a \in {"a1", "a2", "a3"} |->
     [eventId |-> "e1",
      type |-> IF a = "a3" THEN "attendance" ELSE "networking",
      minConnections |-> IF a = "a2" THEN 2 ELSE 1,
      tokens |-> CASE a = "a1" -> 10 [] a = "a2" -> 0 [] OTHER -> 20]]

\* The order in which achievement.findMany returns the rows
AchievementOrder == <<"a1", "a2", "a3">>

\* An MQTT message on syntra/nfc/interactions:
\* <<type, deviceId, data.targetDeviceId, eventId, userId>>; h0 is not in
\* the store
InteractionMessages ==
  { <<"HANDSHAKE", "h1", "h2", "e1", "u1">>,
    <<"HANDSHAKE", "h2", "h1", "e1", "u2">>,
    <<"HANDSHAKE", "h1", "h3", "e1", "u1">>,
    <<"HANDSHAKE", "h2", "h3", "e2", "u2">>,
    <<"HANDSHAKE", "h1", "h4", "e1", "u1">>,
    <<"HANDSHAKE", "h1", "h5", "e1", "u1">>,
    <<"HANDSHAKE", "h1", "h0", "e1", "u1">>,
    <<"HANDSHAKE", "h1", NoId, "e1", "u1">>,
    <<"TAP", "h1", "h2", "e1", "u1">>,
    <<"PROXIMITY", "h1", NoId, "e1", "u1">> }

VARIABLES
  now,               \* Date.now()
  digitalWallet,     \* DigitalWallet collection, by userId
  tokenPurchase,     \* TokenPurchase rows (purchase records), by walletId
  tokenTransaction,  \* TokenTransaction rows (the ledger), by walletId
  festivalSpending,  \* FestivalSpending rows (spending records), by walletId
  vendorProduct,     \* products of the vendors, by product id
  nFCDevice,         \* NFCDevice collection, by deviceId
  task,              \* the request each task is handling and where it is
  recording,         \* whether a task keeps its last request and outcome
  connection,        \* Connection rows, by <<userId, connectedId>>
  userAchievement,   \* number of UserAchievement rows, by <<userId, achievementId>>
  interaction,       \* Interaction rows (a bag)
  achievementUnlocked,  \* 'achievement-unlocked' emits, by <<userId, achievementId>>
  handshakeFeedback,    \* messages published on syntra/nfc/feedback/<deviceId> (a bag)
  nfcInteraction,    \* 'nfc-interaction' emits, by event
  handler,           \* the MQTT message each handler is processing and where it is
  mqttClient,        \* whether the MQTT client is connected
  assignment,        \* the assignDeviceToUser call of each caller and where it is
  deviceConfiguration,  \* messages published on syntra/nfc/config/<deviceId> (a bag)
  profile1,          \* calculateCompatibility: the interests of the first profile
  profile2,          \* calculateCompatibility: the interests of the second profile
  score,             \* calculateCompatibility: which service computed it, and the result
  isInitialized,     \* mobile NFCService.isInitialized
  isScanning,        \* mobile NFCService.isScanning
  currentEventId,    \* mobile NFCService.currentEventId
  technology,        \* NfcManager: whether a technology request is outstanding
  scan               \* the call or event each mobile process is handling and where it is

assignVars == <<assignment, deviceConfiguration>>

nfcVars == <<connection, userAchievement, interaction, achievementUnlocked,
             handshakeFeedback, nfcInteraction, handler, mqttClient,
             assignVars>>

scoreVars == <<profile1, profile2, score>>

scanVars == <<isInitialized, isScanning, currentEventId, technology, scan>>

mobileVars == <<scoreVars, scanVars>>

vars == <<now, digitalWallet, tokenPurchase, tokenTransaction,
          festivalSpending, vendorProduct, nFCDevice, task, recording,
          nfcVars, mobileVars>>

walletVars == <<now, digitalWallet, tokenPurchase, tokenTransaction,
                festivalSpending, vendorProduct, task, recording>>

storeVars == <<digitalWallet, tokenPurchase, tokenTransaction,
               festivalSpending, vendorProduct, nFCDevice>>

\* ------------------------------------------------------------------------
\* Pure helpers
\* ------------------------------------------------------------------------
Day(t) == t \div TicksPerDay

RECURSIVE SumAmounts(_)
SumAmounts(s) ==
  IF s = <<>> THEN 0 ELSE Head(s).amount + SumAmounts(Tail(s))

\* The $match without `type: 'SPENDING'`: every entry of the day counts
IsEntryOn(d, e) == e.day = d

\* $match {walletId, type: 'SPENDING', createdAt in [today, tomorrow)}
\* followed by $group {$sum: '$amount'}
IsSpendingOn(d, e) == e.type = "SPENDING" /\ e.day = d

DailySpending(w, d) ==
  SumAmounts(SelectSeq(tokenTransaction[w], LAMBDA e : IsSpendingOn(d, e)))

\* getWalletBalance, for a wallet that exists
WalletBalance(u) ==
  LET dailySpentToday == DailySpending(u, Day(now))
  IN [tokenBalance |-> digitalWallet[u].tokenBalance,
      dailySpentToday |-> dailySpentToday,
      dailyLimit |-> digitalWallet[u].dailySpendLimit,
      canSpend |-> dailySpentToday < digitalWallet[u].dailySpendLimit]

NoWallet == [exists |-> FALSE, tokenBalance |-> 0, dailySpendLimit |-> 0]

\* new DigitalWallet({tokenBalance: 0, dailySpendLimit: 100, ...})
NewWallet ==
  [exists |-> TRUE, tokenBalance |-> 0, dailySpendLimit |-> DailySpendLimit]

Idle ==
  [op |-> "none", pc |-> "done", userId |-> NoId, amount |-> 0,
   vendorId |-> NoId, productId |-> NoId, quantity |-> 0,
   eventId |-> NoId, deviceId |-> NoId, paymentId |-> 0,
   outcome |-> "none", requester |-> NoId]

RECURSIVE TotalLen(_, _)
TotalLen(f, S) ==
  IF S = {} THEN 0
  ELSE LET x == CHOOSE y \in S : TRUE
       IN Len(f[x]) + TotalLen(f, S \ {x})

InFlight == {t \in DOMAIN task : task[t].pc # "done"}

\* A task that may take a new request: it handles none, and the collections
\* have room for the rows of the requests in flight and of this one
Free(t) ==
  /\ task[t].pc = "done"
  /\ TotalLen(tokenTransaction, Users) + Cardinality(InFlight) < MaxEntries
  /\ TotalLen(tokenPurchase, Users) + Cardinality(InFlight) < MaxEntries

\* The request `req` goes on at `pc` after the await it is in
At(req, pc) == [req EXCEPT !.pc = pc]

\* The request `req` ends: `r` is "ok" or the error thrown to the caller
Done(req, r) ==
  IF recording THEN [req EXCEPT !.pc = "done", !.outcome = r] ELSE Idle

Goto(t, pc) == task' = [task EXCEPT ![t] = At(task[t], pc)]

Return(t, r) == task' = [task EXCEPT ![t] = Done(task[t], r)]

NoConnection == [strength |-> 0, eventContext |-> NoId]

NoInteraction ==
  [pc |-> "done", type |-> "none", deviceId |-> NoId,
   targetDeviceId |-> NoId, eventId |-> NoId, userId |-> NoId,
   user1 |-> NoId, user2 |-> NoId, who |-> 0, connectionCount |-> 0,
   todo |-> <<>>, achievementId |-> NoId, outcome |-> "none"]

\* No assignDeviceToUser call is running
NoAssignment ==
  [pc |-> "done", deviceId |-> NoId, userId |-> NoId, eventId |-> NoId,
   nfcData |-> NoId, outcome |-> "none"]

\* No compatibility has been computed
NoScore == [by |-> "none", value |-> [num |-> 0, den |-> 1]]

NothingScored ==
  /\ profile1 = {}
  /\ profile2 = {}
  /\ score = NoScore

\* No call of the mobile NFC service is running
NoScan == [op |-> "none", pc |-> "done", eventId |-> NoId, result |-> "none"]

\* The mobile NFC service after construction: isInitialized = false,
\* isScanning = false, currentEventId = null
NotScanning ==
  /\ isInitialized = FALSE
  /\ isScanning = FALSE
  /\ currentEventId = NoId
  /\ technology = FALSE
  /\ scan = [p \in {"s1", "s2"} |-> NoScan]

\* No connection, achievement or interaction has been stored, nothing has
\* been emitted and no handler is running
InitNFC ==
  /\ assignment = [c \in {"c1"} |-> NoAssignment]
  /\ deviceConfiguration = EmptyBag
  /\ connection = [x \in Attendees \X Attendees |-> NoConnection]
  /\ userAchievement = [x \in Attendees \X DOMAIN Achievements |-> 0]
  /\ interaction = EmptyBag
  /\ achievementUnlocked = [x \in Attendees \X DOMAIN Achievements |-> 0]
  /\ handshakeFeedback = EmptyBag
  /\ nfcInteraction = [e \in Events |-> 0]
  /\ handler = [h \in Handlers |-> NoInteraction]

\* ------------------------------------------------------------------------
\* Initial state: an empty store with the catalogue and the devices
\* ------------------------------------------------------------------------
Init ==
  /\ InitNFC
  /\ NothingScored
  /\ NotScanning
  /\ mqttClient = TRUE
  /\ now = 0
  /\ digitalWallet = [u \in Users |-> NoWallet]
  /\ tokenPurchase = [u \in Users |-> <<>>]
  /\ tokenTransaction = [u \in Users |-> <<>>]
  /\ festivalSpending = [u \in Users |-> <<>>]
  /\ vendorProduct = InitProducts
  /\ nFCDevice = InitDevices
  /\ task = [t \in Tasks |-> Idle]
  /\ recording = FALSE

\* The clock advances
Tick ==
  /\ now < MaxNow
  /\ now' = now + 1
  /\ UNCHANGED <<storeVars, task, recording, nfcVars, mobileVars>>

\* A store call fails (store unavailable, write conflict, timeout): the
\* awaiting method throws and, re-thrown by its catch block, the request
\* fails.  A failed call leaves the store as it was.
StoreFault(t) ==
  /\ task[t].pc \in {"createWallet", "purchaseRecord", "purchaseUpdate",
                     "purchaseTransaction"}
  /\ Return(t, "InternalError")
  /\ UNCHANGED <<now, storeVars, recording, nfcVars, mobileVars>>

\* The same statements issued without $transaction: the k-1 statements before
\* the one that throws stay written.
PersistedWithoutRollback(statements, k) == {statements[i] : i \in 1..(k - 1)}

\* What a $transaction leaves in the store when statement number k of its
\* statements throws: the transaction is rolled back, nothing is written.
PersistedAtFault(statements, k) == {}

\* ------------------------------------------------------------------------
\* createWallet (called by getWalletBalance and purchaseTokens)
\* ------------------------------------------------------------------------
\* Where the caller goes on after createWallet returned (in purchaseTokens,
\* up to paymentId = `payment_${Date.now()}`)
AfterCreateWallet(req) ==
  IF req.op = "purchaseTokens"
    THEN [req EXCEPT !.pc = "purchaseRecord", !.paymentId = now]
    ELSE [req EXCEPT !.pc = "gwbAggregate"]

\* wallet.save(): the unique index on userId rejects a second wallet
CreateWallet(t) ==
  /\ task[t].pc = "createWallet"
  /\ IF digitalWallet[task[t].userId].exists
       THEN /\ Return(t, "DuplicateKey")
            /\ UNCHANGED digitalWallet
       ELSE /\ digitalWallet' =
                 [digitalWallet EXCEPT ![task[t].userId] = NewWallet]
            /\ task' = [task EXCEPT ![t] = AfterCreateWallet(task[t])]
  /\ UNCHANGED <<now, tokenPurchase, tokenTransaction, festivalSpending,
                 vendorProduct, nFCDevice, recording, nfcVars, mobileVars>>

\* ------------------------------------------------------------------------
\* getWalletBalance(userId)
\* ------------------------------------------------------------------------
\* A request arrives and runs up to DigitalWallet.findOne({userId}); the
\* wallet is created if there is none
GetWalletBalance(t, users) ==
  /\ Free(t)
  /\ \E u \in users :
       LET req == [Idle EXCEPT !.op = "getWalletBalance", !.userId = u]
       IN task' = [task EXCEPT ![t] =
                     At(req, IF digitalWallet[u].exists
                               THEN "gwbAggregate" ELSE "createWallet")]
  /\ UNCHANGED <<now, storeVars, recording, nfcVars, mobileVars>>

\* TokenTransaction.aggregate(...) and the returned WalletBalance
GwbAggregate(t) ==
  /\ task[t].pc = "gwbAggregate"
  /\ Return(t, "ok")
  /\ UNCHANGED <<now, storeVars, recording, nfcVars, mobileVars>>

\* ------------------------------------------------------------------------
\* purchaseTokens({userId, amount, paymentMethod, cardLast4})
\* ------------------------------------------------------------------------
\* A request arrives and runs up to digitalWallet.findUnique({userId});
\* with a wallet it goes on to paymentId = `payment_${Date.now()}`
PurchaseTokens(t, users) ==
  /\ Free(t)
  /\ \E u \in users, a \in PurchaseAmounts :
       LET req == [Idle EXCEPT !.op = "purchaseTokens", !.userId = u,
                               !.amount = a]
       IN task' = [task EXCEPT ![t] =
                     IF digitalWallet[u].exists
                       THEN [req EXCEPT !.pc = "purchaseRecord",
                                        !.paymentId = now]
                       ELSE At(req, "createWallet")]
  /\ UNCHANGED <<now, storeVars, recording, nfcVars, mobileVars>>

\* tokenPurchase.create({walletId, amount, tokenAmount, paymentId, ...})
PurchaseCreateRecord(t) ==
  /\ task[t].pc = "purchaseRecord"
  /\ tokenPurchase' = [tokenPurchase EXCEPT ![task[t].userId] =
       Append(@, [tokenAmount |-> task[t].amount,
                  paymentId |-> task[t].paymentId])]
  /\ Goto(t, "purchaseUpdate")
  /\ UNCHANGED <<now, digitalWallet, tokenTransaction, festivalSpending,
                 vendorProduct, nFCDevice, recording, nfcVars, mobileVars>>

\* digitalWallet.update({tokenBalance: {increment: tokenAmount}})
PurchaseUpdateBalance(t) ==
  /\ task[t].pc = "purchaseUpdate"
  /\ digitalWallet' =
       [digitalWallet EXCEPT ![task[t].userId].tokenBalance = @ + task[t].amount]
  /\ Goto(t, "purchaseTransaction")
  /\ UNCHANGED <<now, tokenPurchase, tokenTransaction, festivalSpending,
                 vendorProduct, nFCDevice, recording, nfcVars, mobileVars>>

\* A ledger write that overwrites the last entry of the wallet
ReplaceLastEntry(ledger, entry) ==
  IF ledger = <<>> THEN <<entry>> ELSE [ledger EXCEPT ![Len(ledger)] = entry]

\* tokenTransaction.create(...): the only write the service makes to the
\* ledger adds one row
CreateEntry(ledger, entry) == Append(ledger, entry)

\* tokenTransaction.create({walletId, type: 'PURCHASE', amount})
PurchaseCreateTransaction(t) ==
  /\ task[t].pc = "purchaseTransaction"
  /\ tokenTransaction' = [tokenTransaction EXCEPT ![task[t].userId] =
       CreateEntry(@, [type |-> "PURCHASE", amount |-> task[t].amount,
                       day |-> Day(now)])]
  /\ Return(t, "ok")
  /\ UNCHANGED <<now, digitalWallet, tokenPurchase, festivalSpending,
                 vendorProduct, nFCDevice, recording, nfcVars, mobileVars>>

\* ------------------------------------------------------------------------
\* Transactions of spendTokens and addTokenReward
\* ------------------------------------------------------------------------
\* The statements inside prisma.$transaction, in program order
TxStatements(req) ==
  IF req.op = "addTokenReward"
    THEN <<"balance", "transaction">>
    ELSE IF req.productId # NoId
           THEN <<"spending", "balance", "transaction", "stock">>
           ELSE <<"spending", "balance", "transaction">>

Range(s) == {s[i] : i \in 1..Len(s)}

\* increment: amount (reward) or decrement: tokenAmount (spending)
BalanceDelta(req) ==
  IF req.op = "addTokenReward" THEN req.amount ELSE 0 - req.amount

EntryType(req) ==
  IF req.op = "addTokenReward" THEN "REWARD" ELSE "SPENDING"

\* stock: {decrement: quantity}; a null stock stays null
DecrementStock(p, q) ==
  IF vendorProduct[p].tracked
    THEN [vendorProduct EXCEPT ![p].stock = @ - q]
    ELSE vendorProduct

\* The store after the statements W of the transaction of `req` are written
TxApply(req, W) ==
  /\ festivalSpending' =
       IF "spending" \in W
         THEN [festivalSpending EXCEPT ![req.userId] =
                Append(@, [vendorId |-> req.vendorId,
                           productId |-> req.productId,
                           tokenAmount |-> req.amount,
                           quantity |-> req.quantity,
                           eventId |-> req.eventId,
                           deviceId |-> req.deviceId])]
         ELSE festivalSpending
  /\ digitalWallet' =
       IF "balance" \in W
         THEN [digitalWallet EXCEPT
                 ![req.userId].tokenBalance = @ + BalanceDelta(req)]
         ELSE digitalWallet
  /\ tokenTransaction' =
       IF "transaction" \in W
         THEN [tokenTransaction EXCEPT ![req.userId] =
                CreateEntry(@, [type |-> EntryType(req),
                                amount |-> req.amount, day |-> Day(now)])]
         ELSE tokenTransaction
  /\ vendorProduct' =
       IF "stock" \in W
         THEN DecrementStock(req.productId, req.quantity)
         ELSE vendorProduct

\* prisma.$transaction(...) commits: all statements are written at once
TxCommit(t) ==
  /\ task[t].pc = "transaction"
  /\ TxApply(task[t], Range(TxStatements(task[t])))
  /\ Return(t, "ok")
  /\ UNCHANGED <<now, tokenPurchase, nFCDevice, recording, nfcVars, mobileVars>>

\* one statement of the transaction throws
TxFault(t) ==
  /\ task[t].pc = "transaction"
  /\ \E k \in 1..Len(TxStatements(task[t])) :
       TxApply(task[t], PersistedAtFault(TxStatements(task[t]), k))
  /\ Return(t, "InternalError")
  /\ UNCHANGED <<now, tokenPurchase, nFCDevice, recording, nfcVars, mobileVars>>

\* ------------------------------------------------------------------------
\* spendTokens({userId, vendorId, productId, tokenAmount, quantity, eventId,
\*              deviceId})
\* ------------------------------------------------------------------------
\* digitalWallet.findUnique({userId}) and the balance check on what was read
SpendFindWallet(req) ==
  LET wallet == digitalWallet[req.userId]
  IN IF ~wallet.exists THEN Done(req, "WalletNotFound")
     ELSE IF wallet.tokenBalance < req.amount
       THEN Done(req, "InsufficientBalance")
     ELSE At(req, "spendDaily")

\* A request arrives and runs up to the balance check
SpendTokens(t, users, targets) ==
  /\ Free(t)
  /\ \E u \in users, s \in targets, a \in SpendAmounts :
       task' = [task EXCEPT ![t] =
                  SpendFindWallet(
                    [Idle EXCEPT !.op = "spendTokens", !.userId = u,
                                 !.vendorId = s[1], !.productId = s[2],
                                 !.quantity = s[3], !.amount = a,
                                 !.eventId = "e1"])]
  /\ UNCHANGED <<now, storeVars, recording, nfcVars, mobileVars>>

\* A spend that creates its spending record before it checks
SpendingBeforeReject(req) == {"spending"}

\* The statements spendTokens has issued when one of its checks throws:
\* none, every check comes before prisma.$transaction
WrittenBeforeReject(req) == {}

\* getWalletBalance(userId) and the check of canSpend
SpendCheckDailyLimit(t) ==
  /\ task[t].pc = "spendDaily"
  /\ IF ~WalletBalance(task[t].userId).canSpend
       THEN /\ Return(t, "DailyLimitExceeded")
            /\ TxApply(task[t], WrittenBeforeReject(task[t]))
       ELSE /\ Goto(t, "spendVendor")
            /\ UNCHANGED <<digitalWallet, tokenTransaction, festivalSpending,
                           vendorProduct>>
  /\ UNCHANGED <<now, tokenPurchase, nFCDevice, recording, nfcVars,
                 mobileVars>>

\* The error of the vendor and product checks, "none" when all pass
VendorCheck(v, p, q) ==
  IF v \notin DOMAIN FestivalVendors THEN "VendorNotFound"
  ELSE IF ~FestivalVendors[v].acceptsTokens THEN "VendorRejectsTokens"
  ELSE IF p = NoId THEN "none"
  ELSE IF p \notin DOMAIN vendorProduct \/ vendorProduct[p].vendorId # v
    THEN "ProductNotFound"
  ELSE IF ~vendorProduct[p].isAvailable THEN "ProductUnavailable"
  ELSE IF vendorProduct[p].tracked /\ vendorProduct[p].stock < q
    THEN "InsufficientStock"
  ELSE "none"

\* festivalVendor.findUnique({id, include products}) and the checks on it
SpendVerifyVendor(t) ==
  /\ task[t].pc = "spendVendor"
  /\ LET err == VendorCheck(task[t].vendorId, task[t].productId,
                            task[t].quantity)
     IN IF err # "none"
          THEN /\ Return(t, err)
               /\ TxApply(task[t], WrittenBeforeReject(task[t]))
          ELSE /\ Goto(t, "transaction")
               /\ UNCHANGED <<digitalWallet, tokenTransaction,
                              festivalSpending, vendorProduct>>
  /\ UNCHANGED <<now, tokenPurchase, nFCDevice, recording, nfcVars,
                 mobileVars>>

\* ------------------------------------------------------------------------
\* processNFCPayment(deviceId, vendorId, amount, productId)
\* ------------------------------------------------------------------------
\* A request arrives and runs up to nFCDevice.findUnique({deviceId, include
\* user, event}); then it calls spendTokens for the device's user and event
\* with the default quantity 1
DevicePayment(base, d, s, a) ==
  LET req == [base EXCEPT !.op = "processNFCPayment", !.deviceId = d,
                          !.vendorId = s[1], !.productId = s[2],
                          !.amount = a]
  IN IF d \notin DOMAIN nFCDevice \/ nFCDevice[d].userId = NoId
          \/ nFCDevice[d].eventId = NoId
       THEN Done(req, "DeviceNotBound")
       ELSE [req EXCEPT !.pc = "spendFind",
                        !.userId = nFCDevice[d].userId,
                        !.eventId = nFCDevice[d].eventId,
                        !.quantity = 1]

ProcessNFCPayment(t, devices, targets, amounts) ==
  /\ Free(t)
  /\ \E d \in devices, s \in {x \in targets : x[3] = 1}, a \in amounts :
       task' = [task EXCEPT ![t] = DevicePayment(Idle, d, s, a)]
  /\ UNCHANGED <<now, storeVars, recording, nfcVars, mobileVars>>

\* POST /nfc-payment by the authenticated user `requester`: the device id
\* comes from the x-device-id header or the body; without one the answer is
\* 400, with one the route calls processNFCPayment(deviceId, vendorId,
\* amount, productId)
PostNFCPayment(t, requesters, devices, targets, amounts) ==
  /\ Free(t)
  /\ \E u \in requesters, d \in devices \cup {NoId},
        s \in {x \in targets : x[3] = 1}, a \in amounts :
       LET base == [Idle EXCEPT !.requester = u]
       IN task' = [task EXCEPT ![t] =
            IF d = NoId
              THEN Done([base EXCEPT !.op = "processNFCPayment"],
                        "DeviceIdRequired")
              ELSE DevicePayment(base, d, s, a)]
  /\ UNCHANGED <<now, storeVars, recording, nfcVars, mobileVars>>

\* spendTokens has been called (by processNFCPayment, or by a request that
\* has not read the wallet yet) and runs up to the balance check
SpendTokensEntered(t) ==
  /\ task[t].pc = "spendFind"
  /\ task' = [task EXCEPT ![t] = SpendFindWallet(task[t])]
  /\ UNCHANGED <<now, storeVars, recording, nfcVars, mobileVars>>

\* ------------------------------------------------------------------------
\* addTokenReward(userId, amount, description, eventId)
\* ------------------------------------------------------------------------
\* A request arrives and runs up to digitalWallet.findUnique({userId})
AddTokenReward(t, users) ==
  /\ Free(t)
  /\ \E u \in users, a \in RewardAmounts :
       LET req == [Idle EXCEPT !.op = "addTokenReward", !.userId = u,
                               !.amount = a]
       IN task' = [task EXCEPT ![t] =
                     IF ~digitalWallet[u].exists
                       THEN Done(req, "WalletNotFound")
                       ELSE At(req, "transaction")]
  /\ UNCHANGED <<now, storeVars, recording, nfcVars, mobileVars>>

\* ------------------------------------------------------------------------
\* handleNFCInteraction(interaction), for a message on
\* syntra/nfc/interactions
\* ------------------------------------------------------------------------
\* What the caller of mqttClient.publish sees when the message was
\* `delivered` or not, had publish thrown on a failure
PublishThrows(delivered) == IF delivered THEN "returned" ELSE "thrown"

\* What the caller of mqttClient.publish sees: publish returns at once, a
\* failure goes to the callback, which logs it (sendDeviceConfiguration),
\* or nowhere (sendHandshakeFeedback passes no callback)
PublishResult(delivered) == "returned"

\* What the caller of socketService.emitToUser / emitToEvent sees: an emit
\* that is not delivered is dropped
EmitResult(delivered) == "returned"

\* A handler that may take a new message
Listening(h) ==
  /\ handler[h].pc = "done"
  /\ BagCardinality(interaction) < MaxInteractions

Continue(h, r) == handler' = [handler EXCEPT ![h] = r]

\* The promise of handleNFCInteraction settles: `outcome` is "ok" when it
\* resolves and "error" when the catch block has re-thrown
Settled(r, outcome) ==
  IF recording THEN [r EXCEPT !.pc = "done", !.outcome = outcome]
  ELSE NoInteraction

\* type: interaction.type === 'TAP' ? 'NFC_TAP' : 'CONNECTION_MADE'
InteractionType(type) == IF type = "TAP" THEN "NFC_TAP" ELSE "CONNECTION_MADE"

\* A switch that runs the handshake for every message naming a target
DispatchByTarget(type, targetDeviceId) ==
  IF targetDeviceId # NoId THEN "findDevices" ELSE "emitToEvent"

\* switch (interaction.type): only a HANDSHAKE runs
\* handleHandshakeInteraction, which returns at once without
\* data.targetDeviceId; handleTapInteraction only writes a debug line
Dispatch(type, targetDeviceId) ==
  IF type = "HANDSHAKE" /\ targetDeviceId # NoId
    THEN "findDevices" ELSE "emitToEvent"

\* interaction.create(...), then the switch on the type up to the next
\* await: a handshake that names a target goes on to read the two devices,
\* everything else has nothing more to do than the emit
HandleNFCInteraction(h, messages) ==
  /\ Listening(h)
  /\ \E m \in messages :
       /\ interaction' =
            interaction (+) SetToBag({[type |-> InteractionType(m[1]),
                                       userId |-> m[5],
                                       eventId |-> m[4],
                                       deviceId |-> m[2]]})
       /\ Continue(h, [NoInteraction EXCEPT
                         !.pc = Dispatch(m[1], m[3]),
                         !.type = m[1], !.deviceId = m[2],
                         !.targetDeviceId = m[3], !.eventId = m[4],
                         !.userId = m[5]])
  /\ UNCHANGED <<walletVars, mobileVars, assignVars, nFCDevice, connection, userAchievement,
                 achievementUnlocked, handshakeFeedback, nfcInteraction,
                 mqttClient>>

\* nFCDevice.findUnique(...): the user bound to the device, if any
DeviceUser(d) == IF d \in DOMAIN nFCDevice THEN nFCDevice[d].userId ELSE NoId

\* handleHandshakeInteraction: Promise.all of the two device reads; the
\* store answers one of them first
HandshakeFindDevices(h) ==
  /\ handler[h].pc = "findDevices"
  /\ LET r == handler[h]
     IN \/ Continue(h, [r EXCEPT !.pc = "findDevice2",
                                 !.user1 = DeviceUser(r.deviceId)])
        \/ Continue(h, [r EXCEPT !.pc = "findDevice1",
                                 !.user2 = DeviceUser(r.targetDeviceId)])
  /\ UNCHANGED <<walletVars, mobileVars, assignVars, nFCDevice, connection, userAchievement,
                 interaction, achievementUnlocked, handshakeFeedback,
                 nfcInteraction, mqttClient>>

\* The other device read is answered, then
\* `if (!device1?.user || !device2?.user) return`
HandshakeFindOther(h) ==
  /\ handler[h].pc \in {"findDevice1", "findDevice2"}
  /\ LET r == handler[h]
         user1 == IF r.pc = "findDevice1" THEN DeviceUser(r.deviceId)
                  ELSE r.user1
         user2 == IF r.pc = "findDevice2" THEN DeviceUser(r.targetDeviceId)
                  ELSE r.user2
     IN Continue(h, IF user1 = NoId \/ user2 = NoId
                      THEN [r EXCEPT !.pc = "emitToEvent",
                                     !.user1 = NoId, !.user2 = NoId]
                      ELSE [r EXCEPT !.pc = "createConnection",
                                     !.user1 = user1, !.user2 = user2])
  /\ UNCHANGED <<walletVars, mobileVars, assignVars, nFCDevice, connection, userAchievement,
                 interaction, achievementUnlocked, handshakeFeedback,
                 nfcInteraction, mqttClient>>

\* connection.upsert({where: {userId_connectedId: {userId, connectedId}},
\*                    update: {strength: {increment: 1}},
\*                    create: {userId, connectedId, eventContext, strength: 1}})
Upsert(rows, key, eventContext) ==
  IF rows[key].strength = 0
    THEN [rows EXCEPT ![key] = [strength |-> 1, eventContext |-> eventContext]]
    ELSE [rows EXCEPT ![key].strength = @ + 1]

\* createConnection with the first upsert only: a one-sided edge
ConnectionOneSided(userId1, userId2) == << <<userId1, userId2>> >>

\* The two upserts of createConnection, in the order of the array
ConnectionStatements(userId1, userId2) ==
  << <<userId1, userId2>>, <<userId2, userId1>> >>

RECURSIVE ApplyUpserts(_, _, _)
ApplyUpserts(rows, statements, eventContext) ==
  IF statements = <<>> THEN rows
  ELSE ApplyUpserts(Upsert(rows, Head(statements), eventContext),
                    Tail(statements), eventContext)

\* createConnection: prisma.$transaction([upsert, upsert]) commits
CreateConnectionCommit(h) ==
  /\ handler[h].pc = "createConnection"
  /\ LET r == handler[h]
     IN /\ connection' =
             ApplyUpserts(connection,
                          ConnectionStatements(r.user1, r.user2), r.eventId)
        /\ Continue(h, [r EXCEPT !.pc = "count", !.who = 1])
  /\ UNCHANGED <<walletVars, mobileVars, assignVars, nFCDevice, userAchievement, interaction,
                 achievementUnlocked, handshakeFeedback, nfcInteraction,
                 mqttClient>>

\* createConnection: one of the two upserts throws (unique conflict with a
\* concurrent handshake of the pair, deadlock, store fault); the catch block
\* logs the error and the handshake goes on
CreateConnectionFault(h) ==
  /\ handler[h].pc = "createConnection"
  /\ LET r == handler[h]
         statements == ConnectionStatements(r.user1, r.user2)
     IN /\ \E k \in 1..Len(statements) :
             connection' =
               ApplyUpserts(connection,
                            SelectSeq(statements,
                                      LAMBDA x :
                                        x \in PersistedAtFault(statements, k)),
                            r.eventId)
        /\ Continue(h, [r EXCEPT !.pc = "count", !.who = 1])
  /\ UNCHANGED <<walletVars, mobileVars, assignVars, nFCDevice, userAchievement, interaction,
                 achievementUnlocked, handshakeFeedback, nfcInteraction,
                 mqttClient>>

\* connection.count({where: {userId, eventContext: eventId}})
ConnectionCount(userId, eventId) ==
  Cardinality({y \in Attendees :
                 /\ connection[<<userId, y>>].strength > 0
                 /\ connection[<<userId, y>>].eventContext = eventId})

\* achievement.findMany({where: {eventId, conditions.type = 'networking'}})
\* filtered by `conditions.minConnections && connectionCount >= minConnections`
Unlockable(eventId, connectionCount) ==
  SelectSeq(AchievementOrder,
            LAMBDA a : /\ Achievements[a].eventId = eventId
                       /\ Achievements[a].type = "networking"
                       /\ Achievements[a].minConnections # 0
                       /\ connectionCount >= Achievements[a].minConnections)

\* The user whose achievements the handshake is checking
Checked(r) == IF r.who = 1 THEN r.user1 ELSE r.user2

\* What follows one pass of the loop of checkNetworkingAchievements: the
\* next achievement to unlock, then the second user, then the feedback
NextAchievement(r) ==
  IF r.todo # <<>>
    THEN [r EXCEPT !.pc = "unlockAchievement",
                   !.achievementId = Head(r.todo), !.todo = Tail(r.todo)]
    ELSE IF r.who = 1
           THEN [r EXCEPT !.pc = "count", !.who = 2, !.achievementId = NoId]
           ELSE [r EXCEPT !.pc = "sendHandshakeFeedback",
                          !.achievementId = NoId]

\* checkNetworkingAchievements: the count and the list of achievements
CheckNetworkingAchievements(h) ==
  /\ handler[h].pc = "count"
  /\ LET r == handler[h]
         n == ConnectionCount(Checked(r), r.eventId)
     IN Continue(h, NextAchievement([r EXCEPT
                                       !.connectionCount = n,
                                       !.todo = Unlockable(r.eventId, n)]))
  /\ UNCHANGED <<walletVars, mobileVars, assignVars, nFCDevice, connection, userAchievement,
                 interaction, achievementUnlocked, handshakeFeedback,
                 nfcInteraction, mqttClient>>

\* userAchievement has one row at most for a user and an achievement:
\* a create that finds one fails with P2002
AlreadyUnlocked(userId, achievementId) ==
  userAchievement[<<userId, achievementId>>] > 0

\* unlockAchievement notifying whether or not the row was created
AfterCreateNotifyAlways(r, created) == [r EXCEPT !.pc = "notify"]

\* Where unlockAchievement goes on after userAchievement.create: to the
\* notification when the row was created, out of the try block otherwise
AfterCreate(r, created) ==
  IF created THEN [r EXCEPT !.pc = "notify"] ELSE NextAchievement(r)

\* unlockAchievement: userAchievement.create({userId, achievementId})
UnlockAchievement(h) ==
  /\ handler[h].pc = "unlockAchievement"
  /\ LET r == handler[h]
         key == <<Checked(r), r.achievementId>>
     IN IF AlreadyUnlocked(key[1], key[2])
          THEN /\ Continue(h, AfterCreate(r, FALSE))
               /\ UNCHANGED userAchievement
          ELSE /\ userAchievement' = [userAchievement EXCEPT ![key] = @ + 1]
               /\ Continue(h, AfterCreate(r, TRUE))
  /\ UNCHANGED <<walletVars, mobileVars, assignVars, nFCDevice, connection, interaction,
                 achievementUnlocked, handshakeFeedback, nfcInteraction,
                 mqttClient>>

\* unlockAchievement: the create throws another error, which is logged
UnlockAchievementFault(h) ==
  /\ handler[h].pc = "unlockAchievement"
  /\ Continue(h, AfterCreate(handler[h], FALSE))
  /\ UNCHANGED <<walletVars, mobileVars, assignVars, nFCDevice, connection, userAchievement,
                 interaction, achievementUnlocked, handshakeFeedback,
                 nfcInteraction, mqttClient>>

\* unlockAchievement: achievement.findUnique, then
\* emitToUser(userId, 'achievement-unlocked', achievement)
NotifyUnlocked(h) ==
  /\ handler[h].pc = "notify"
  /\ LET r == handler[h]
     IN /\ achievementUnlocked' =
             [achievementUnlocked EXCEPT
                ![<<Checked(r), r.achievementId>>] = @ + 1]
        /\ Continue(h, NextAchievement(r))
  /\ UNCHANGED <<walletVars, mobileVars, assignVars, nFCDevice, connection, userAchievement,
                 interaction, handshakeFeedback, nfcInteraction, mqttClient>>

\* unlockAchievement: achievement.findUnique throws or the emit to the user
\* is not delivered; the catch block logs whatever is thrown
NotifyUnlockedFault(h) ==
  /\ handler[h].pc = "notify"
  /\ Continue(h, NextAchievement(handler[h]))
  /\ UNCHANGED <<walletVars, mobileVars, assignVars, nFCDevice, connection, userAchievement,
                 interaction, achievementUnlocked, handshakeFeedback,
                 nfcInteraction, mqttClient>>

\* calculateCompatibility: |A \cap B| / |A \cup B| * 100, kept as a fraction
CalculateCompatibility(interests1, interests2) ==
  LET union == interests1 \cup interests2
  IN IF Cardinality(union) > 0
       THEN [num |-> Cardinality(interests1 \cap interests2) * 100,
             den |-> Cardinality(union)]
       ELSE [num |-> 0, den |-> 1]

Exceeds(compatibility, n) == compatibility.num > n * compatibility.den

\* vibration: compatibility > 70 ? 'strong' : compatibility > 40 ? 'medium'
\*            : 'weak'
Vibration(compatibility) ==
  IF Exceeds(compatibility, 70) THEN "strong"
  ELSE IF Exceeds(compatibility, 40) THEN "medium" ELSE "weak"

\* sendHandshakeFeedback(deviceId, targetDeviceId, compatibility): nothing
\* without an MQTT client, one message to each device otherwise
SendHandshakeFeedback(h) ==
  /\ handler[h].pc = "sendHandshakeFeedback"
  /\ LET r == handler[h]
         v == Vibration(CalculateCompatibility(Interests[r.user1],
                                               Interests[r.user2]))
     IN /\ handshakeFeedback' =
             IF mqttClient
               THEN handshakeFeedback
                      (+) SetToBag({[deviceId |-> r.deviceId, vibration |-> v]})
                      (+) SetToBag({[deviceId |-> r.targetDeviceId,
                                     vibration |-> v]})
               ELSE handshakeFeedback
        /\ Continue(h, IF PublishResult(TRUE) = "thrown"
                         THEN Settled(r, "error")
                         ELSE [r EXCEPT !.pc = "emitToEvent"])
  /\ UNCHANGED <<walletVars, mobileVars, assignVars, nFCDevice, connection, userAchievement,
                 interaction, achievementUnlocked, nfcInteraction, mqttClient>>

\* sendHandshakeFeedback with a publish that fails (broker unreachable,
\* client disconnecting): the message of that device is lost
SendHandshakeFeedbackFault(h) ==
  /\ handler[h].pc = "sendHandshakeFeedback"
  /\ mqttClient
  /\ LET r == handler[h]
         v == Vibration(CalculateCompatibility(Interests[r.user1],
                                               Interests[r.user2]))
         both == {r.deviceId, r.targetDeviceId}
     IN /\ \E delivered \in (SUBSET both) \ {both} :
             handshakeFeedback' =
               handshakeFeedback
                 (+) SetToBag({[deviceId |-> d, vibration |-> v] :
                                 d \in delivered})
        /\ Continue(h, IF PublishResult(FALSE) = "thrown"
                         THEN Settled(r, "error")
                         ELSE [r EXCEPT !.pc = "emitToEvent"])
  /\ UNCHANGED <<walletVars, mobileVars, assignVars, nFCDevice, connection, userAchievement,
                 interaction, achievementUnlocked, nfcInteraction, mqttClient>>

\* handleNFCInteraction: emitToEvent(eventId, 'nfc-interaction', ...) after
\* the interaction has been processed
EmitToEvent(h) ==
  /\ handler[h].pc = "emitToEvent"
  /\ nfcInteraction' = [nfcInteraction EXCEPT ![handler[h].eventId] = @ + 1]
  /\ Continue(h, IF EmitResult(TRUE) = "thrown"
                   THEN Settled(handler[h], "error")
                   ELSE Settled(handler[h], "ok"))
  /\ UNCHANGED <<walletVars, mobileVars, assignVars, nFCDevice, connection, userAchievement,
                 interaction, achievementUnlocked, handshakeFeedback,
                 mqttClient>>

\* handleNFCInteraction: the emit to the dashboard is not delivered
EmitToEventFault(h) ==
  /\ handler[h].pc = "emitToEvent"
  /\ Continue(h, IF EmitResult(FALSE) = "thrown"
                   THEN Settled(handler[h], "error")
                   ELSE Settled(handler[h], "ok"))
  /\ UNCHANGED <<walletVars, mobileVars, assignVars, nFCDevice, connection, userAchievement,
                 interaction, achievementUnlocked, handshakeFeedback,
                 nfcInteraction, mqttClient>>

\* A read of the handshake throws: handleNFCInteraction logs and re-throws,
\* handleMQTTMessage logs; nothing is emitted
InteractionFault(h) ==
  /\ handler[h].pc \in {"findDevices", "findDevice1", "findDevice2", "count"}
  /\ Continue(h, Settled(handler[h], "error"))
  /\ UNCHANGED <<walletVars, mobileVars, assignVars, nFCDevice, connection, userAchievement,
                 interaction, achievementUnlocked, handshakeFeedback,
                 nfcInteraction, mqttClient>>

\* ------------------------------------------------------------------------
\* assignDeviceToUser(deviceId, userId, eventId)
\* ------------------------------------------------------------------------
\* The promise of assignDeviceToUser settles: "ok" when it resolves,
\* "error" when the catch block has re-thrown
Assigned(req, outcome) ==
  IF recording THEN [req EXCEPT !.pc = "done", !.outcome = outcome]
  ELSE NoAssignment

\* A call arrives and runs generateNFCData up to user.findUnique:
\* `if (!user) throw new Error('User not found')`, else the snapshot of
\* the user's profile
AssignDeviceToUser(c, devices, users, events) ==
  /\ assignment[c].pc = "done"
  /\ BagCardinality(deviceConfiguration) < MaxConfigurations
  /\ \E d \in devices, u \in users, e \in events :
       LET req == [NoAssignment EXCEPT !.pc = "update", !.deviceId = d,
                                       !.userId = u, !.eventId = e]
       IN assignment' =
            [assignment EXCEPT ![c] =
               IF u \notin Attendees THEN Assigned(req, "error")
               ELSE [req EXCEPT !.nfcData = u]]
  /\ UNCHANGED <<walletVars, mobileVars, nFCDevice, connection, userAchievement,
                 interaction, achievementUnlocked, handshakeFeedback,
                 nfcInteraction, handler, mqttClient, deviceConfiguration>>

\* An update that binds the device and leaves the stored snapshot alone
BindingKeepsSnapshot(req) ==
  [userId |-> req.userId, eventId |-> req.eventId,
   nfcData |-> nFCDevice[req.deviceId].nfcData]

\* data: {userId, eventId, nfcData: await this.generateNFCData(...)}: one
\* statement writes the binding and the snapshot the call has taken
Binding(req) ==
  [userId |-> req.userId, eventId |-> req.eventId, nfcData |-> req.nfcData]

\* nFCDevice.update({where: {deviceId}, data: {userId, eventId, nfcData}}),
\* which throws when there is no such device
AssignUpdate(c) ==
  /\ assignment[c].pc = "update"
  /\ LET req == assignment[c]
     IN IF req.deviceId \in DOMAIN nFCDevice
          THEN /\ nFCDevice' =
                    [nFCDevice EXCEPT ![req.deviceId] = Binding(req)]
               /\ assignment' =
                    [assignment EXCEPT ![c] =
                       [req EXCEPT !.pc = "sendDeviceConfiguration"]]
          ELSE /\ UNCHANGED nFCDevice
               /\ assignment' =
                    [assignment EXCEPT ![c] = Assigned(req, "error")]
  /\ UNCHANGED <<walletVars, mobileVars, connection, userAchievement,
                 interaction, achievementUnlocked, handshakeFeedback,
                 nfcInteraction, handler, mqttClient, deviceConfiguration>>

\* The update throws (store unavailable): the catch block logs and re-throws
AssignFault(c) ==
  /\ assignment[c].pc = "update"
  /\ assignment' = [assignment EXCEPT ![c] = Assigned(assignment[c], "error")]
  /\ UNCHANGED <<walletVars, mobileVars, nFCDevice, connection, userAchievement,
                 interaction, achievementUnlocked, handshakeFeedback,
                 nfcInteraction, handler, mqttClient, deviceConfiguration>>

\* sendDeviceConfiguration(deviceId, device.nfcData): nothing without an
\* MQTT client, one message to the device otherwise; then the call returns
\* the device
SendDeviceConfiguration(c) ==
  /\ assignment[c].pc = "sendDeviceConfiguration"
  /\ LET req == assignment[c]
     IN /\ deviceConfiguration' =
             IF mqttClient
               THEN deviceConfiguration
                      (+) SetToBag({[deviceId |-> req.deviceId,
                                     nfcData |-> req.nfcData]})
               ELSE deviceConfiguration
        /\ assignment' =
             [assignment EXCEPT ![c] =
                IF PublishResult(TRUE) = "thrown" THEN Assigned(req, "error")
                ELSE Assigned(req, "ok")]
  /\ UNCHANGED <<walletVars, mobileVars, nFCDevice, connection, userAchievement,
                 interaction, achievementUnlocked, handshakeFeedback,
                 nfcInteraction, handler, mqttClient>>

\* sendDeviceConfiguration with a publish that fails: the callback logs the
\* error and the configuration is lost
SendDeviceConfigurationFault(c) ==
  /\ assignment[c].pc = "sendDeviceConfiguration"
  /\ mqttClient
  /\ assignment' =
       [assignment EXCEPT ![c] =
          IF PublishResult(FALSE) = "thrown"
            THEN Assigned(assignment[c], "error")
            ELSE Assigned(assignment[c], "ok")]
  /\ UNCHANGED <<walletVars, mobileVars, nFCDevice, connection, userAchievement,
                 interaction, achievementUnlocked, handshakeFeedback,
                 nfcInteraction, handler, mqttClient, deviceConfiguration>>

\* ------------------------------------------------------------------------
\* The NFC interaction service under concurrent messages
\* ------------------------------------------------------------------------
InitInteractions ==
  /\ now = 0
  /\ digitalWallet = [u \in Users |-> NewWallet]
  /\ tokenPurchase = [u \in Users |-> <<>>]
  /\ tokenTransaction = [u \in Users |-> <<>>]
  /\ festivalSpending = [u \in Users |-> <<>>]
  /\ vendorProduct = InitProducts
  /\ nFCDevice = HandshakeDevices
  /\ task = [t \in Tasks |-> Idle]
  /\ recording = FALSE
  /\ InitNFC
  /\ NothingScored
  /\ NotScanning
  /\ mqttClient \in BOOLEAN

NextInteractions ==
  \/ \E h \in DOMAIN handler : HandleNFCInteraction(h, InteractionMessages)
  \/ \E h \in DOMAIN handler : HandshakeFindDevices(h)
  \/ \E h \in DOMAIN handler : HandshakeFindOther(h)
  \/ \E h \in DOMAIN handler : CreateConnectionCommit(h)
  \/ \E h \in DOMAIN handler : CreateConnectionFault(h)
  \/ \E h \in DOMAIN handler : CheckNetworkingAchievements(h)
  \/ \E h \in DOMAIN handler : UnlockAchievement(h)
  \/ \E h \in DOMAIN handler : UnlockAchievementFault(h)
  \/ \E h \in DOMAIN handler : NotifyUnlocked(h)
  \/ \E h \in DOMAIN handler : SendHandshakeFeedback(h)
  \/ \E h \in DOMAIN handler : EmitToEvent(h)
  \/ \E h \in DOMAIN handler : InteractionFault(h)

SpecInteractions == InitInteractions /\ [][NextInteractions]_vars

\* ------------------------------------------------------------------------
\* Handshakes of one pair of attendees at two events, each with the devices
\* the two wear at that event
\* ------------------------------------------------------------------------
NextScoped ==
  \/ \E h \in DOMAIN handler :
       HandleNFCInteraction(h, { <<"HANDSHAKE", "h1", "h2", "e1", "u1">>,
                                <<"HANDSHAKE", "h4", "h6", "e2", "u1">>,
                                <<"HANDSHAKE", "h6", "h4", "e2", "u2">> })
  \/ \E h \in DOMAIN handler : HandshakeFindDevices(h)
  \/ \E h \in DOMAIN handler : HandshakeFindOther(h)
  \/ \E h \in DOMAIN handler : CreateConnectionCommit(h)
  \/ \E h \in DOMAIN handler : CreateConnectionFault(h)
  \/ \E h \in DOMAIN handler : CheckNetworkingAchievements(h)
  \/ \E h \in DOMAIN handler : UnlockAchievement(h)
  \/ \E h \in DOMAIN handler : UnlockAchievementFault(h)
  \/ \E h \in DOMAIN handler : NotifyUnlocked(h)
  \/ \E h \in DOMAIN handler : SendHandshakeFeedback(h)
  \/ \E h \in DOMAIN handler : EmitToEvent(h)
  \/ \E h \in DOMAIN handler : InteractionFault(h)

SpecScoped == InitInteractions /\ [][NextScoped]_vars

\* ------------------------------------------------------------------------
\* Handshakes and device assignments over channels that lose messages: one
\* handler and one caller, which keep the outcome of what they did last.
\* The handshake is h1 with h5, which is bound to nobody at first; the
\* assignments bind h5 to u3 or to u0, who is no user.
\* ------------------------------------------------------------------------
InitFeedback ==
  /\ now = 0
  /\ digitalWallet = [u \in Users |-> NewWallet]
  /\ tokenPurchase = [u \in Users |-> <<>>]
  /\ tokenTransaction = [u \in Users |-> <<>>]
  /\ festivalSpending = [u \in Users |-> <<>>]
  /\ vendorProduct = InitProducts
  /\ nFCDevice = HandshakeDevices
  /\ task = [t \in Tasks |-> Idle]
  /\ recording = TRUE
  /\ assignment = [c \in {"c1"} |-> NoAssignment]
  /\ deviceConfiguration = EmptyBag
  /\ connection = [x \in Attendees \X Attendees |-> NoConnection]
  /\ userAchievement = [x \in Attendees \X DOMAIN Achievements |-> 0]
  /\ interaction = EmptyBag
  /\ achievementUnlocked = [x \in Attendees \X DOMAIN Achievements |-> 0]
  /\ handshakeFeedback = EmptyBag
  /\ nfcInteraction = [e \in Events |-> 0]
  /\ handler = [h \in {"m1"} |-> NoInteraction]
  /\ NothingScored
  /\ NotScanning
  /\ mqttClient \in BOOLEAN

NextFeedback ==
  \/ \E h \in DOMAIN handler :
       HandleNFCInteraction(h, { <<"HANDSHAKE", "h1", "h5", "e1", "u1">> })
  \/ \E h \in DOMAIN handler : HandshakeFindDevices(h)
  \/ \E h \in DOMAIN handler : HandshakeFindOther(h)
  \/ \E h \in DOMAIN handler : CreateConnectionCommit(h)
  \/ \E h \in DOMAIN handler : CreateConnectionFault(h)
  \/ \E h \in DOMAIN handler : CheckNetworkingAchievements(h)
  \/ \E h \in DOMAIN handler : UnlockAchievement(h)
  \/ \E h \in DOMAIN handler : UnlockAchievementFault(h)
  \/ \E h \in DOMAIN handler : NotifyUnlocked(h)
  \/ \E h \in DOMAIN handler : NotifyUnlockedFault(h)
  \/ \E h \in DOMAIN handler : SendHandshakeFeedback(h)
  \/ \E h \in DOMAIN handler : SendHandshakeFeedbackFault(h)
  \/ \E h \in DOMAIN handler : EmitToEvent(h)
  \/ \E h \in DOMAIN handler : EmitToEventFault(h)
  \/ \E h \in DOMAIN handler : InteractionFault(h)
  \/ \E c \in DOMAIN assignment :
       AssignDeviceToUser(c, {"h5"}, {"u3", "u0"}, {"e1"})
  \/ \E c \in DOMAIN assignment : AssignUpdate(c)
  \/ \E c \in DOMAIN assignment : AssignFault(c)
  \/ \E c \in DOMAIN assignment : SendDeviceConfiguration(c)
  \/ \E c \in DOMAIN assignment : SendDeviceConfigurationFault(c)

SpecFeedback == InitFeedback /\ [][NextFeedback]_vars

\* ------------------------------------------------------------------------
\* Concurrent assignments of one device: each caller has just been asked
\* to assign device h2, which u2 wears at e1, and generateNFCData has
\* returned the snapshot of the new user
\* ------------------------------------------------------------------------
InitRebind ==
  /\ now = 0
  /\ digitalWallet = [u \in Users |-> NewWallet]
  /\ tokenPurchase = [u \in Users |-> <<>>]
  /\ tokenTransaction = [u \in Users |-> <<>>]
  /\ festivalSpending = [u \in Users |-> <<>>]
  /\ vendorProduct = InitProducts
  /\ nFCDevice = HandshakeDevices
  /\ task = [t \in Tasks |-> Idle]
  /\ recording = TRUE
  /\ assignment \in
       [{"c1", "c2"} ->
          {NoAssignment} \cup
          { [NoAssignment EXCEPT !.pc = "update", !.deviceId = "h2",
                                 !.userId = u, !.eventId = e, !.nfcData = u] :
              u \in {"u1", "u3"}, e \in Events }]
  /\ deviceConfiguration = EmptyBag
  /\ connection = [x \in Attendees \X Attendees |-> NoConnection]
  /\ userAchievement = [x \in Attendees \X DOMAIN Achievements |-> 0]
  /\ interaction = EmptyBag
  /\ achievementUnlocked = [x \in Attendees \X DOMAIN Achievements |-> 0]
  /\ handshakeFeedback = EmptyBag
  /\ nfcInteraction = [e \in Events |-> 0]
  /\ handler = [h \in Handlers |-> NoInteraction]
  /\ NothingScored
  /\ NotScanning
  /\ mqttClient \in BOOLEAN

NextRebind ==
  \/ \E c \in DOMAIN assignment : AssignUpdate(c)
  \/ \E c \in DOMAIN assignment : AssignFault(c)
  \/ \E c \in DOMAIN assignment : SendDeviceConfiguration(c)
  \/ \E c \in DOMAIN assignment : SendDeviceConfigurationFault(c)

SpecRebind == InitRebind /\ [][NextRebind]_vars

\* ------------------------------------------------------------------------
\* The wallet service under concurrent requests
\* ------------------------------------------------------------------------
Next ==
  \/ \E t \in DOMAIN task : GetWalletBalance(t, CoreUsers)
  \/ \E t \in DOMAIN task : GwbAggregate(t)
  \/ \E t \in DOMAIN task : CreateWallet(t)
  \/ \E t \in DOMAIN task : PurchaseTokens(t, CoreUsers)
  \/ \E t \in DOMAIN task : PurchaseCreateRecord(t)
  \/ \E t \in DOMAIN task : PurchaseUpdateBalance(t)
  \/ \E t \in DOMAIN task : PurchaseCreateTransaction(t)
  \/ \E t \in DOMAIN task : SpendTokens(t, CoreUsers, CoreTargets)
  \/ \E t \in DOMAIN task : SpendCheckDailyLimit(t)
  \/ \E t \in DOMAIN task : SpendVerifyVendor(t)
  \/ \E t \in DOMAIN task :
       ProcessNFCPayment(t, CoreDevices, CoreTargets, CorePaymentAmounts)
  \/ \E t \in DOMAIN task : SpendTokensEntered(t)
  \/ \E t \in DOMAIN task : AddTokenReward(t, CoreUsers)
  \/ \E t \in DOMAIN task : TxCommit(t)
  \/ \E t \in DOMAIN task : TxFault(t)
  \/ \E t \in DOMAIN task : StoreFault(t)

Spec == Init /\ [][Next]_vars

\* The same with a clock that advances
NextClock == Next \/ Tick

SpecClock == Init /\ [][NextClock]_vars

\* ------------------------------------------------------------------------
\* Concurrent spends: every wallet holds one purchase, the tracked product
\* has one unit left, and each task has just been asked to spend; no store
\* call fails
\* ------------------------------------------------------------------------
RaceTasks == {"t1", "t2", "t3"}
RaceBalances == {10, 25}
RaceAmount == 10
RaceTargets == { <<"v1", NoId, 1>>, <<"v1", "p1", 1>> }

RaceRequests ==
  {Idle} \cup
  { [Idle EXCEPT !.op = "spendTokens", !.pc = "spendFind", !.userId = u,
                 !.vendorId = s[1], !.productId = s[2], !.quantity = s[3],
                 !.amount = RaceAmount, !.eventId = "e1"] :
      u \in Users, s \in RaceTargets }

InitRace ==
  /\ now = 0
  /\ \E b \in RaceBalances :
       /\ digitalWallet =
            [u \in Users |-> [NewWallet EXCEPT !.tokenBalance = b]]
       /\ tokenPurchase =
            [u \in Users |-> << [tokenAmount |-> b, paymentId |-> 0] >>]
       /\ tokenTransaction =
            [u \in Users |->
               << [type |-> "PURCHASE", amount |-> b, day |-> 0] >>]
  /\ festivalSpending = [u \in Users |-> <<>>]
  /\ vendorProduct = [InitProducts EXCEPT !["p1"].stock = 1]
  /\ nFCDevice = InitDevices
  /\ task \in [RaceTasks -> RaceRequests]
  /\ InitNFC
  /\ NothingScored
  /\ NotScanning
  /\ mqttClient = TRUE
  /\ recording = TRUE

NextRace ==
  \/ \E t \in DOMAIN task : SpendTokensEntered(t)
  \/ \E t \in DOMAIN task : SpendCheckDailyLimit(t)
  \/ \E t \in DOMAIN task : SpendVerifyVendor(t)
  \/ \E t \in DOMAIN task : TxCommit(t)

SpecRace == InitRace /\ [][NextRace]_vars
\* ------------------------------------------------------------------------
\* The wallet service handling one request after the other, with a clock;
\* the last request and its outcome are kept.  The requests include a vendor
\* that rejects tokens and a device bound to another event than the vendors'.
\* ------------------------------------------------------------------------
SequenceTargets == CoreTargets \cup { <<"v2", NoId, 1>>, <<"v3", NoId, 1>> }

InitSequence ==
  /\ InitNFC
  /\ NothingScored
  /\ NotScanning
  /\ mqttClient = TRUE
  /\ now = 0
  /\ digitalWallet = [u \in Users |-> NoWallet]
  /\ tokenPurchase = [u \in Users |-> <<>>]
  /\ tokenTransaction = [u \in Users |-> <<>>]
  /\ festivalSpending = [u \in Users |-> <<>>]
  /\ vendorProduct = InitProducts
  /\ nFCDevice = InitDevices
  /\ task = [t \in {"t1"} |-> Idle]
  /\ recording = TRUE

NextSequence ==
  \/ \E t \in DOMAIN task : GetWalletBalance(t, CoreUsers)
  \/ \E t \in DOMAIN task : GwbAggregate(t)
  \/ \E t \in DOMAIN task : CreateWallet(t)
  \/ \E t \in DOMAIN task : PurchaseTokens(t, CoreUsers)
  \/ \E t \in DOMAIN task : PurchaseCreateRecord(t)
  \/ \E t \in DOMAIN task : PurchaseUpdateBalance(t)
  \/ \E t \in DOMAIN task : PurchaseCreateTransaction(t)
  \/ \E t \in DOMAIN task : SpendTokens(t, CoreUsers, SequenceTargets)
  \/ \E t \in DOMAIN task : SpendCheckDailyLimit(t)
  \/ \E t \in DOMAIN task : SpendVerifyVendor(t)
  \/ \E t \in DOMAIN task :
       ProcessNFCPayment(t, {"d1", "d2", "d3"}, SequenceTargets,
                         CorePaymentAmounts)
  \/ \E t \in DOMAIN task : SpendTokensEntered(t)
  \/ \E t \in DOMAIN task : AddTokenReward(t, CoreUsers)
  \/ \E t \in DOMAIN task : TxCommit(t)
  \/ \E t \in DOMAIN task : TxFault(t)
  \/ \E t \in DOMAIN task : StoreFault(t)
  \/ Tick

SpecSequence == InitSequence /\ [][NextSequence]_vars

\* ------------------------------------------------------------------------
\* One wallet over several days: purchases, spends without a product,
\* rewards and balance reads, one request after the other
\* ------------------------------------------------------------------------
NextDaily ==
  \/ \E t \in DOMAIN task : GetWalletBalance(t, CoreUsers)
  \/ \E t \in DOMAIN task : GwbAggregate(t)
  \/ \E t \in DOMAIN task : CreateWallet(t)
  \/ \E t \in DOMAIN task : PurchaseTokens(t, CoreUsers)
  \/ \E t \in DOMAIN task : PurchaseCreateRecord(t)
  \/ \E t \in DOMAIN task : PurchaseUpdateBalance(t)
  \/ \E t \in DOMAIN task : PurchaseCreateTransaction(t)
  \/ \E t \in DOMAIN task : SpendTokens(t, CoreUsers, { <<"v1", NoId, 1>> })
  \/ \E t \in DOMAIN task : SpendCheckDailyLimit(t)
  \/ \E t \in DOMAIN task : SpendVerifyVendor(t)
  \/ \E t \in DOMAIN task : AddTokenReward(t, CoreUsers)
  \/ \E t \in DOMAIN task : TxCommit(t)
  \/ \E t \in DOMAIN task : TxFault(t)
  \/ \E t \in DOMAIN task : StoreFault(t)
  \/ Tick

SpecDaily == InitSequence /\ [][NextDaily]_vars

\* ------------------------------------------------------------------------
\* One task that keeps its outcome spends at every vendor and product, also
\* through a device; the clock stands still
\* ------------------------------------------------------------------------
NextRejected ==
  \/ \E t \in DOMAIN task : PurchaseTokens(t, CoreUsers)
  \/ \E t \in DOMAIN task : CreateWallet(t)
  \/ \E t \in DOMAIN task : PurchaseCreateRecord(t)
  \/ \E t \in DOMAIN task : PurchaseUpdateBalance(t)
  \/ \E t \in DOMAIN task : PurchaseCreateTransaction(t)
  \/ \E t \in DOMAIN task : SpendTokens(t, Users, SpendTargets)
  \/ \E t \in DOMAIN task : SpendCheckDailyLimit(t)
  \/ \E t \in DOMAIN task : SpendVerifyVendor(t)
  \/ \E t \in DOMAIN task :
       ProcessNFCPayment(t, CoreDevices, CoreTargets, CorePaymentAmounts)
  \/ \E t \in DOMAIN task : SpendTokensEntered(t)
  \/ \E t \in DOMAIN task : TxCommit(t)
  \/ \E t \in DOMAIN task : TxFault(t)
  \/ \E t \in DOMAIN task : StoreFault(t)

SpecRejected == InitSequence /\ [][NextRejected]_vars

\* ------------------------------------------------------------------------
\* Purchases and device payments through the routes, by two users who each
\* wear a device
\* ------------------------------------------------------------------------
NextRoute ==
  \/ \E t \in DOMAIN task : PurchaseTokens(t, Users)
  \/ \E t \in DOMAIN task : CreateWallet(t)
  \/ \E t \in DOMAIN task : PurchaseCreateRecord(t)
  \/ \E t \in DOMAIN task : PurchaseUpdateBalance(t)
  \/ \E t \in DOMAIN task : PurchaseCreateTransaction(t)
  \/ \E t \in DOMAIN task :
       PostNFCPayment(t, Users, {"d1", "d2"}, { <<"v1", NoId, 1>> },
                      CorePaymentAmounts)
  \/ \E t \in DOMAIN task : SpendTokensEntered(t)
  \/ \E t \in DOMAIN task : SpendCheckDailyLimit(t)
  \/ \E t \in DOMAIN task : SpendVerifyVendor(t)
  \/ \E t \in DOMAIN task : TxCommit(t)
  \/ \E t \in DOMAIN task : TxFault(t)
  \/ \E t \in DOMAIN task : StoreFault(t)

SpecRoute == Init /\ [][NextRoute]_vars

\* ------------------------------------------------------------------------
\* calculateCompatibility, of the backend and of the mobile application, on
\* every pair of interest sets
\* ------------------------------------------------------------------------
AtLeast(compatibility, n) == compatibility.num >= n * compatibility.den

\* mobile: Math.max(20, Math.min(100, compatibility))
Clamp(compatibility) ==
  IF ~AtLeast(compatibility, 20) THEN [num |-> 20, den |-> 1]
  ELSE IF Exceeds(compatibility, 100) THEN [num |-> 100, den |-> 1]
  ELSE compatibility

\* mobile calculateCompatibility: 50 when either list is empty, otherwise
\* common / total * 100 between 20 and 100
MobileCalculateCompatibility(currentInterests, targetInterests) ==
  IF currentInterests = {} \/ targetInterests = {}
    THEN [num |-> 50, den |-> 1]
    ELSE Clamp([num |-> Cardinality(currentInterests \cap targetInterests) * 100,
                den |-> Cardinality(currentInterests \cup targetInterests)])

BackendCompatibility ==
  /\ score.by = "none"
  /\ score' = [by |-> "backend",
               value |-> CalculateCompatibility(profile1, profile2)]
  /\ UNCHANGED <<walletVars, nFCDevice, nfcVars, scanVars, profile1,
                 profile2>>

MobileCompatibility ==
  /\ score.by = "none"
  /\ score' = [by |-> "mobile",
               value |-> MobileCalculateCompatibility(profile1, profile2)]
  /\ UNCHANGED <<walletVars, nFCDevice, nfcVars, scanVars, profile1,
                 profile2>>

\* mobile: apiService.get('/users/me') throws: `return 50`
MobileCompatibilityFault ==
  /\ score.by = "none"
  /\ score' = [by |-> "mobile-catch", value |-> [num |-> 50, den |-> 1]]
  /\ UNCHANGED <<walletVars, nFCDevice, nfcVars, scanVars, profile1,
                 profile2>>

InitCompatibility ==
  /\ now = 0
  /\ digitalWallet = [u \in Users |-> NoWallet]
  /\ tokenPurchase = [u \in Users |-> <<>>]
  /\ tokenTransaction = [u \in Users |-> <<>>]
  /\ festivalSpending = [u \in Users |-> <<>>]
  /\ vendorProduct = InitProducts
  /\ nFCDevice = HandshakeDevices
  /\ task = [t \in Tasks |-> Idle]
  /\ recording = FALSE
  /\ InitNFC
  /\ mqttClient = TRUE
  /\ profile1 \in SUBSET {"ai", "startups", "marketing"}
  /\ profile2 \in SUBSET {"ai", "startups", "marketing"}
  /\ score = NoScore
  /\ NotScanning

NextCompatibility ==
  \/ BackendCompatibility
  \/ MobileCompatibility
  \/ MobileCompatibilityFault

SpecCompatibility == InitCompatibility /\ [][NextCompatibility]_vars

\* ------------------------------------------------------------------------
\* Mobile NFCService: startScanning, stopScanning and the NfcManager events
\* ------------------------------------------------------------------------
\* The call ends with what it returns: "true", "false" or "void"
ScanDone(req, result) == [req EXCEPT !.pc = "done", !.result = result]

\* startScanning once the service is initialized: `if (this.isScanning)
\* return true`, else currentEventId is set and NfcManager.isEnabled() is
\* awaited
AfterInitialize(p, req) ==
  IF isScanning
    THEN /\ scan' = [scan EXCEPT ![p] = ScanDone(req, "true")]
         /\ UNCHANGED currentEventId
    ELSE /\ scan' = [scan EXCEPT ![p] = [req EXCEPT !.pc = "isEnabled"]]
         /\ currentEventId' = req.eventId

\* startScanning(eventId, userId) is called and runs up to its first await
StartScanning(p, events) ==
  /\ scan[p].pc = "done"
  /\ \E e \in events :
       LET req == [NoScan EXCEPT !.op = "startScanning", !.eventId = e]
       IN IF ~isInitialized
            THEN /\ scan' = [scan EXCEPT ![p] =
                               [req EXCEPT !.pc = "initialize"]]
                 /\ UNCHANGED currentEventId
            ELSE AfterInitialize(p, req)
  /\ UNCHANGED <<walletVars, nFCDevice, nfcVars, scoreVars, isInitialized,
                 isScanning, technology>>

\* initialize() returns true
StartInitialize(p) ==
  /\ scan[p].pc = "initialize"
  /\ isInitialized' = TRUE
  /\ AfterInitialize(p, scan[p])
  /\ UNCHANGED <<walletVars, nFCDevice, nfcVars, scoreVars, isScanning,
                 technology>>

\* NfcManager.isEnabled() answers: disabled shows the alert and returns
\* false, enabled goes on to requestTechnology
StartIsEnabled(p) ==
  /\ scan[p].pc = "isEnabled"
  /\ \E isEnabled \in BOOLEAN :
       scan' = [scan EXCEPT ![p] =
                  IF isEnabled THEN [scan[p] EXCEPT !.pc = "requestTechnology"]
                  ELSE ScanDone(scan[p], "false")]
  /\ UNCHANGED <<walletVars, nFCDevice, nfcVars, scoreVars, isInitialized,
                 isScanning, currentEventId, technology>>

\* NfcManager.requestTechnology(NfcTech.Ndef) resolves
StartRequestTechnology(p) ==
  /\ scan[p].pc = "requestTechnology"
  /\ technology' = TRUE
  /\ isScanning' = TRUE
  /\ scan' = [scan EXCEPT ![p] = ScanDone(scan[p], "true")]
  /\ UNCHANGED <<walletVars, nFCDevice, nfcVars, scoreVars, isInitialized,
                 currentEventId>>

\* initialize() returns false (NFC not supported, NfcManager.start threw),
\* or isEnabled or requestTechnology rejects: the catch block of
\* startScanning
StartFault(p) ==
  /\ scan[p].pc \in {"initialize", "isEnabled", "requestTechnology"}
  /\ isScanning' = FALSE
  /\ scan' = [scan EXCEPT ![p] = ScanDone(scan[p], "false")]
  /\ UNCHANGED <<walletVars, nFCDevice, nfcVars, scoreVars, isInitialized,
                 currentEventId, technology>>

\* What stopScanning does before its await: nothing when not scanning
StopEntered(req) ==
  IF isScanning THEN [req EXCEPT !.pc = "cancel"] ELSE ScanDone(req, "void")

\* stopScanning() is called
StopScanning(p) ==
  /\ scan[p].pc = "done"
  /\ scan' = [scan EXCEPT ![p] =
                StopEntered([NoScan EXCEPT !.op = "stopScanning"])]
  /\ UNCHANGED <<walletVars, nFCDevice, nfcVars, scoreVars, isInitialized,
                 isScanning, currentEventId, technology>>

\* NfcManager.cancelTechnologyRequest() resolves
StopCancel(p) ==
  /\ scan[p].pc = "cancel"
  /\ technology' = FALSE
  /\ isScanning' = FALSE
  /\ scan' = [scan EXCEPT ![p] = ScanDone(scan[p], "void")]
  /\ UNCHANGED <<walletVars, nFCDevice, nfcVars, scoreVars, isInitialized,
                 currentEventId>>

\* NfcManager.cancelTechnologyRequest() rejects: the catch block logs; the
\* request may or may not have been released
StopCancelFault(p) ==
  /\ scan[p].pc = "cancel"
  /\ technology' \in {technology, FALSE}
  /\ scan' = [scan EXCEPT ![p] = ScanDone(scan[p], "void")]
  /\ UNCHANGED <<walletVars, nFCDevice, nfcVars, scoreVars, isInitialized,
                 isScanning, currentEventId>>

\* NfcEvents.DiscoverTag while a request is outstanding: handleTagDiscovered
\* starts to process the tag
TagDiscovered(p) ==
  /\ scan[p].pc = "done"
  /\ technology
  /\ scan' = [scan EXCEPT ![p] =
                [NoScan EXCEPT !.op = "tagDiscovered", !.pc = "processing"]]
  /\ UNCHANGED <<walletVars, nFCDevice, nfcVars, scoreVars, isInitialized,
                 isScanning, currentEventId, technology>>

\* handleTagDiscovered: the tag has been processed, or processing threw;
\* finally { this.stopScanning() }
TagHandled(p) ==
  /\ scan[p].pc = "processing"
  /\ scan' = [scan EXCEPT ![p] = StopEntered(scan[p])]
  /\ UNCHANGED <<walletVars, nFCDevice, nfcVars, scoreVars, isInitialized,
                 isScanning, currentEventId, technology>>

\* NfcEvents.SessionClosed: handleSessionClosed
SessionClosed ==
  /\ technology
  /\ technology' = FALSE
  /\ isScanning' = FALSE
  /\ UNCHANGED <<walletVars, nFCDevice, nfcVars, scoreVars, isInitialized,
                 currentEventId, scan>>

NextScanning ==
  \/ \E p \in DOMAIN scan : StartScanning(p, Events)
  \/ \E p \in DOMAIN scan : StartInitialize(p)
  \/ \E p \in DOMAIN scan : StartIsEnabled(p)
  \/ \E p \in DOMAIN scan : StartRequestTechnology(p)
  \/ \E p \in DOMAIN scan : StartFault(p)
  \/ \E p \in DOMAIN scan : StopScanning(p)
  \/ \E p \in DOMAIN scan : StopCancel(p)
  \/ \E p \in DOMAIN scan : StopCancelFault(p)
  \/ \E p \in DOMAIN scan : TagDiscovered(p)
  \/ \E p \in DOMAIN scan : TagHandled(p)
  \/ SessionClosed

SpecScanning == Init /\ [][NextScanning]_vars

TypeOK ==
  /\ now \in 0..MaxNow
  /\ recording \in BOOLEAN
  /\ DOMAIN digitalWallet = Users
  /\ \A t \in DOMAIN task : task[t].pc = "done" \/ task[t].op # "none"

\* ------------------------------------------------------------------------
\* Properties
\* ------------------------------------------------------------------------

\* C1: in every reachable state every wallet's token balance is >= 0
C1_BalanceNonNegative ==
  \A u \in Users : digitalWallet[u].tokenBalance >= 0

\* The signed amount of a ledger entry: PURCHASE and REWARD count positive,
\* SPENDING negative
Signed(e) == IF e.type = "SPENDING" THEN 0 - e.amount ELSE e.amount

RECURSIVE LedgerSum(_)
LedgerSum(s) ==
  IF s = <<>> THEN 0 ELSE Signed(Head(s)) + LedgerSum(Tail(s))

\* C2: whenever no wallet operation is in flight, every wallet's cached
\* balance equals the signed sum of its ledger entries
C2_BalanceEqualsLedger ==
  InFlight = {} =>
    \A u \in Users :
      digitalWallet[u].tokenBalance = LedgerSum(tokenTransaction[u])

\* The race is over: every task has returned
RaceDone == \A t \in DOMAIN task : task[t].pc = "done"

Spenders(u) ==
  {t \in DOMAIN task : task[t].op = "spendTokens" /\ task[t].userId = u}

Succeeded(S) == {t \in S : task[t].outcome = "ok"}

\* The balance the wallet of u held when the race began
RaceBalance(u) == tokenTransaction[u][1].amount

\* C3: N concurrent spends of the same amount A against one wallet holding
\* B, with N*A > B and no other check failing: exactly floor(B/A) succeed,
\* the others fail with InsufficientBalance, and B - floor(B/A)*A is left
C3_ConcurrentSpends ==
  \A u \in Users :
    LET S == Spenders(u)
        B == RaceBalance(u)
        A == RaceAmount
    IN (/\ RaceDone
        /\ \A t \in S : task[t].productId = NoId
        /\ Cardinality(S) * A > B)
       => /\ Cardinality(Succeeded(S)) = B \div A
          /\ \A t \in S \ Succeeded(S) :
               task[t].outcome = "InsufficientBalance"
          /\ digitalWallet[u].tokenBalance = B - (B \div A) * A

\* C4: a payment reference is credited once: no wallet ever holds two
\* purchase records with the same payment reference
C4_PurchaseIdempotent ==
  \A u \in Users :
    \A i, j \in 1..Len(tokenPurchase[u]) :
      i # j => tokenPurchase[u][i].paymentId # tokenPurchase[u][j].paymentId

\* C5: the SPENDING entries of one day of a wallet never sum to more than
\* the wallet's daily limit
C5_DailyLimit ==
  \A u \in Users : \A d \in 0..Day(MaxNow) :
    digitalWallet[u].exists =>
      DailySpending(u, d) <= digitalWallet[u].dailySpendLimit

\* C6: a tracked stock is never negative
C6_StockNonNegative ==
  \A p \in DOMAIN vendorProduct :
    vendorProduct[p].tracked => vendorProduct[p].stock >= 0

\* The tasks that were asked to spend on product p
Buyers(p) ==
  {t \in DOMAIN task : task[t].op = "spendTokens" /\ task[t].productId = p}

\* C7: two concurrent spends for the last unit of a product, from two
\* wallets that hold enough: exactly one succeeds, the other fails with
\* InsufficientStock and is not charged, and the stock is 0 afterwards
C7_LastUnit ==
  LET P == Buyers("p1")
  IN (/\ RaceDone
      /\ Cardinality(P) = 2
      /\ \A t \in DOMAIN task \ P : task[t].op = "none"
      /\ \A t1, t2 \in P : t1 # t2 => task[t1].userId # task[t2].userId)
     => /\ Cardinality(Succeeded(P)) = 1
        /\ \A t \in P \ Succeeded(P) :
             /\ task[t].outcome = "InsufficientStock"
             /\ digitalWallet[task[t].userId].tokenBalance =
                  RaceBalance(task[t].userId)
        /\ vendorProduct["p1"].stock = 0

Last(s) == s[Len(s)]

\* The step appends one spending record to the records of wallet u
SpendingRecorded(u) ==
  /\ Len(festivalSpending'[u]) = Len(festivalSpending[u]) + 1
  /\ SubSeq(festivalSpending'[u], 1, Len(festivalSpending[u])) =
       festivalSpending[u]

\* The step appends one SPENDING entry to the ledger of wallet u
SpendingEntered(u) ==
  /\ Len(tokenTransaction'[u]) = Len(tokenTransaction[u]) + 1
  /\ Last(tokenTransaction'[u]).type = "SPENDING"

\* The products whose stock the step changes
StockChanged ==
  {p \in DOMAIN vendorProduct : vendorProduct'[p].stock # vendorProduct[p].stock}

\* The four writes of a spend happen in one step or not at all
SpendWritesTogether ==
  /\ \A u \in Users :
       /\ festivalSpending'[u] # festivalSpending[u] => SpendingRecorded(u)
       /\ SpendingRecorded(u) <=> SpendingEntered(u)
       /\ SpendingRecorded(u) <=>
            digitalWallet'[u].tokenBalance < digitalWallet[u].tokenBalance
       /\ SpendingRecorded(u) =>
            LET r == Last(festivalSpending'[u])
            IN /\ digitalWallet'[u].tokenBalance =
                    digitalWallet[u].tokenBalance - r.tokenAmount
               /\ Last(tokenTransaction'[u]).amount = r.tokenAmount
               /\ (r.productId # NoId /\ vendorProduct[r.productId].tracked)
                    => /\ StockChanged = {r.productId}
                       /\ vendorProduct'[r.productId].stock =
                            vendorProduct[r.productId].stock - r.quantity
               /\ (r.productId = NoId \/ ~vendorProduct[r.productId].tracked)
                    => StockChanged = {}
  /\ StockChanged # {} => \E u \in Users : SpendingRecorded(u)

\* C8: a spend commits its balance decrement, stock decrement, SPENDING
\* entry and spending record as one unit, also when its transaction fails
C8_SpendAtomic == [][SpendWritesTogether]_vars

\* a spend of a product with a tracked stock has committed
C8_Witness ==
  \E u \in Users :
    /\ festivalSpending[u] # <<>>
    /\ Last(festivalSpending[u]).productId = "p1"
    /\ vendorProduct["p1"].stock < InitProducts["p1"].stock

\* C9: the connection graph is symmetric in every reachable state: the edge
\* X->Y exists exactly when Y->X exists and both have the same strength,
\* also after a commit that failed and under concurrent handshakes of a pair
C9_ConnectionSymmetric ==
  \A x, y \in Attendees :
    connection[<<x, y>>].strength = connection[<<y, x>>].strength

\* two handshakes of the same pair are in flight, both past createConnection,
\* and both edges of the pair have been incremented twice
C9_Witness ==
  \E h, g \in DOMAIN handler :
    /\ h # g
    /\ handler[h].pc \notin {"done", "findDevices", "findDevice1", "findDevice2",
                             "createConnection"}
    /\ handler[g].pc \notin {"done", "findDevices", "findDevice1", "findDevice2",
                             "createConnection"}
    /\ handler[h].user1 = handler[g].user2
    /\ handler[h].user2 = handler[g].user1
    /\ handler[h].user1 # handler[h].user2
    /\ connection[<<handler[h].user1, handler[h].user2>>].strength = 2

C11_CompatibilityScore ==
  LET A == profile1
      B == profile2
      floored == IF A = {} \/ B = {} THEN 0
                 ELSE (Cardinality(A \cap B) * 100) \div Cardinality(A \cup B)
  IN score.by # "none" =>
       /\ score.value.num = floored * score.value.den
       /\ floored \in 0..100

\* C12: a handshake whose two devices resolve to the same user changes no
\* connection edge: in every reachable state no user has an edge to itself
C12_NoSelfConnection ==
  \A x \in Attendees : connection[<<x, x>>].strength = 0

\* C13: a handshake in which either device is bound to an event other than
\* the event of the handshake changes no connection edge, no achievement
\* progress and publishes no feedback message
C13_EventMismatch ==
  [][\A h \in DOMAIN handler :
       LET r == handler[h]
           mismatch ==
             /\ r.type = "HANDSHAKE"
             /\ \E d \in {r.deviceId, r.targetDeviceId} \cap DOMAIN nFCDevice :
                  /\ nFCDevice[d].eventId # NoId
                  /\ nFCDevice[d].eventId # r.eventId
       IN (handler'[h] # r /\ mismatch) =>
            /\ connection' = connection
            /\ userAchievement' = userAchievement
            /\ handshakeFeedback' = handshakeFeedback]_vars

\* C14: a device payment fails with DeviceNotBound when the device has no
\* bound user or event, and with EventMismatch when the device's event is
\* not the event of the vendor; neither changes a balance, a stock, the
\* ledger or the spending records
C14_DevicePaymentErrors ==
  [][\A t \in DOMAIN task :
       LET r == task'[t]
           d == r.deviceId
           unbound == \/ d \notin DOMAIN nFCDevice
                      \/ nFCDevice[d].userId = NoId
                      \/ nFCDevice[d].eventId = NoId
           mismatch == /\ ~unbound
                       /\ r.vendorId \in DOMAIN FestivalVendors
                       /\ FestivalVendors[r.vendorId].eventId
                            # nFCDevice[d].eventId
           untouched == /\ digitalWallet' = digitalWallet
                        /\ vendorProduct' = vendorProduct
                        /\ tokenTransaction' = tokenTransaction
                        /\ festivalSpending' = festivalSpending
       IN (r # task[t] /\ r.op = "processNFCPayment") =>
            /\ unbound => /\ untouched
                          /\ r.pc = "done" => r.outcome = "DeviceNotBound"
            /\ mismatch => /\ untouched
                           /\ r.pc = "done" => r.outcome = "EventMismatch"]_vars

\* C15: a spend checks the vendor, then the product, then the balance, then
\* the daily limit: a spend rejected for its balance or for the daily limit
\* has passed the vendor and product checks, and one rejected for the daily
\* limit has a sufficient balance
C15_CheckOrder ==
  \A t \in DOMAIN task :
    LET r == task[t]
    IN (r.pc = "done" /\ r.op = "spendTokens") =>
         /\ r.outcome \in {"InsufficientBalance", "DailyLimitExceeded"}
              => VendorCheck(r.vendorId, r.productId, r.quantity) = "none"
         /\ r.outcome = "DailyLimitExceeded"
              => digitalWallet[r.userId].tokenBalance >= r.amount

\* C16: a reward is never rejected for the daily spend limit, and the
\* dailySpent of a wallet is the sum of the SPENDING entries of the current
\* day: its PURCHASE and REWARD entries do not count
C16_RewardOutsideDailyLimit ==
  /\ \A t \in DOMAIN task :
       task[t].op = "addTokenReward" => task[t].outcome # "DailyLimitExceeded"
  /\ \A u \in Users :
       LET today == SelectSeq(tokenTransaction[u],
                              LAMBDA e : e.day = Day(now))
           incoming == SelectSeq(today,
                                 LAMBDA e : e.type \in {"PURCHASE", "REWARD"})
       IN digitalWallet[u].exists =>
            WalletBalance(u).dailySpentToday =
              SumAmounts(today) - SumAmounts(incoming)

\* a reward has been credited to a wallet that has spent today
C16_Witness ==
  \E t \in DOMAIN task : \E u \in Users :
    /\ task[t].op = "addTokenReward"
    /\ task[t].userId = u
    /\ task[t].outcome = "ok"
    /\ WalletBalance(u).dailySpentToday > 0
    /\ \E i \in 1..Len(tokenTransaction[u]) :
         /\ tokenTransaction[u][i].type = "REWARD"
         /\ tokenTransaction[u][i].day = Day(now)

\* C20: a purchase applies its purchase record, its balance increment and
\* its ledger entry together or not at all: whenever no purchase of a wallet
\* is in flight, the wallet has as many PURCHASE entries as purchase records
\* and its balance is the signed sum of its ledger
C20_PurchaseAllOrNothing ==
  \A u \in Users :
    (\A t \in InFlight :
       ~(task[t].op = "purchaseTokens" /\ task[t].userId = u))
    => /\ Len(SelectSeq(tokenTransaction[u], LAMBDA e : e.type = "PURCHASE"))
            = Len(tokenPurchase[u])
       /\ digitalWallet[u].tokenBalance = LedgerSum(tokenTransaction[u])

\* C17: once the handshakes are over, a user who unlocked an achievement
\* with a token reward has exactly one REWARD entry of that amount, and an
\* achievement without a token reward has credited nothing
C17_UnlockReward ==
  (\A h \in DOMAIN handler : handler[h].pc = "done") =>
    \A u \in Users \cap Attendees :
      /\ \A a \in DOMAIN Achievements :
           Achievements[a].tokens > 0 =>
             Len(SelectSeq(tokenTransaction[u],
                           LAMBDA e : /\ e.type = "REWARD"
                                      /\ e.amount = Achievements[a].tokens))
               = userAchievement[<<u, a>>]
      /\ \A i \in 1..Len(tokenTransaction[u]) :
           tokenTransaction[u][i].type = "REWARD" =>
             \E a \in DOMAIN Achievements :
               /\ userAchievement[<<u, a>>] > 0
               /\ Achievements[a].tokens = tokenTransaction[u][i].amount

\* C18: a feedback publish that fails (the vibration feedback of a
\* handshake, the configuration pushed to an assigned device, the emit to a
\* user or to the dashboard) never makes the handshake or the assignDevice
\* call fail: the handshake goes on to its next step and resolves, the
\* assignment resolves, and the connection edges and the device binding
\* that were committed stay as they are
C18_PublishFailureSwallowed ==
  [][ /\ \A h \in DOMAIN handler :
           handler[h].pc \in {"notify", "sendHandshakeFeedback", "emitToEvent"}
             /\ handler'[h] # handler[h]
           => /\ handler[h].pc = "notify"
                   => handler'[h].pc \in {"unlockAchievement", "count",
                                          "sendHandshakeFeedback"}
              /\ handler[h].pc = "sendHandshakeFeedback"
                   => handler'[h].pc = "emitToEvent"
              /\ handler[h].pc = "emitToEvent"
                   => handler'[h].outcome = "ok"
              /\ \A x \in DOMAIN connection :
                   connection'[x].strength >= connection[x].strength
              /\ userAchievement' = userAchievement
      /\ \A c \in DOMAIN assignment :
           assignment[c].pc = "sendDeviceConfiguration"
             /\ assignment'[c] # assignment[c]
           => /\ assignment'[c].outcome = "ok"
              /\ nFCDevice' = nFCDevice
    ]_vars

\* with the MQTT client connected, a handshake has resolved with its two
\* edges stored although no feedback and no emit was delivered, and an
\* assignment has resolved with the device bound although no configuration
\* was delivered
C18_Witness ==
  /\ mqttClient
  /\ handshakeFeedback = EmptyBag
  /\ deviceConfiguration = EmptyBag
  /\ \A e \in Events : nfcInteraction[e] = 0
  /\ \E h \in DOMAIN handler :
       /\ handler[h].type = "HANDSHAKE"
       /\ handler[h].pc = "done"
       /\ handler[h].outcome = "ok"
       /\ handler[h].user1 # NoId
       /\ connection[<<handler[h].user1, handler[h].user2>>].strength > 0
       /\ connection[<<handler[h].user2, handler[h].user1>>].strength > 0
  /\ \E c \in DOMAIN assignment :
       /\ assignment[c].outcome = "ok"
       /\ nFCDevice[assignment[c].deviceId].userId = assignment[c].userId
       /\ nFCDevice[assignment[c].deviceId].eventId = assignment[c].eventId

\* C19: handshake feedback is published only after the connection of the
\* handshake was committed: a handler that publishes feedback finds both
\* edges of its pair in the store, and none is published for a handshake
\* whose connection commit failed
C19_FeedbackAfterCommit ==
  [][\A h \in DOMAIN handler :
       LET r == handler[h]
       IN (handler'[h] # r /\ handshakeFeedback' # handshakeFeedback) =>
            /\ connection[<<r.user1, r.user2>>].strength > 0
            /\ connection[<<r.user2, r.user1>>].strength > 0]_vars

\* C21: a device payment that is retried (same device, same vendor, same
\* product and amount, at the same clock reading) charges the wallet at most
\* once: no wallet holds two spending records of the same device payment
C21_RetryChargesOnce ==
  \A u \in DOMAIN festivalSpending :
    \A i, j \in 1..Len(festivalSpending[u]) :
      /\ i < j
      /\ festivalSpending[u][i].deviceId # NoId
      /\ festivalSpending[u][i].deviceId = festivalSpending[u][j].deviceId
      /\ festivalSpending[u][i].vendorId = festivalSpending[u][j].vendorId
      /\ festivalSpending[u][i].productId = festivalSpending[u][j].productId
      => festivalSpending[u][i].tokenAmount # festivalSpending[u][j].tokenAmount

\* C22: the ledger is append-only: in every step of the wallet service the
\* entries a wallet had before the step are, unchanged and in the same
\* order, the first entries it has after the step
C22_LedgerAppendOnly ==
  [][ \A u \in DOMAIN tokenTransaction :
        /\ Len(tokenTransaction[u]) <= Len(tokenTransaction'[u])
        /\ \A i \in 1..Len(tokenTransaction[u]) :
             tokenTransaction'[u][i] = tokenTransaction[u][i]
    ]_vars

\* a wallet whose ledger holds a purchase followed by entries of other
\* types, all written after the purchase had been recorded
C22_Witness ==
  \E u \in DOMAIN tokenTransaction :
    /\ Len(tokenTransaction[u]) >= 3
    /\ tokenTransaction[u][1].type = "PURCHASE"
    /\ tokenTransaction[u][2].type # "PURCHASE"
    /\ tokenTransaction[u][3].type # tokenTransaction[u][2].type

\* C23: getWalletBalance is side-effect-free: no step of a getWalletBalance
\* call, for a user with or without a wallet, changes the set of wallets, a
\* balance or the ledger
C23_GetBalanceReadOnly ==
  [][ \A t \in DOMAIN task :
        task[t].op = "getWalletBalance" /\ task'[t] # task[t]
        => /\ digitalWallet' = digitalWallet
           /\ tokenTransaction' = tokenTransaction
    ]_vars

\* C24: a TAP interaction only logs one Interaction row: the step that takes
\* the message adds one NFC_TAP row and nothing else, and no step of its
\* handler changes the connection graph, the achievement rows, a wallet or
\* the ledger, or publishes device feedback
C24_TapOnlyLogs ==
  [][ \A h \in DOMAIN handler :
        /\ handler'[h] # handler[h]
        /\ \/ handler[h].pc # "done" /\ handler[h].type = "TAP"
           \/ handler[h].pc = "done" /\ handler'[h].type = "TAP"
        => /\ connection' = connection
           /\ userAchievement' = userAchievement
           /\ digitalWallet' = digitalWallet
           /\ tokenTransaction' = tokenTransaction
           /\ handshakeFeedback' = handshakeFeedback
           /\ IF handler[h].pc = "done"
                THEN LET row == [type |-> "NFC_TAP",
                                 userId |-> handler'[h].userId,
                                 eventId |-> handler'[h].eventId,
                                 deviceId |-> handler'[h].deviceId]
                     IN interaction' = interaction (+) SetToBag({row})
                ELSE interaction' = interaction
    ]_vars

\* a TAP that named a target device whose user is not connected to the
\* tapping user has been logged and its handler is about to finish
C24_Witness ==
  \E h \in DOMAIN handler :
    /\ handler[h].type = "TAP"
    /\ handler[h].pc = "emitToEvent"
    /\ handler[h].targetDeviceId # NoId
    /\ BagCardinality(interaction) >= 1
    /\ \A x \in DOMAIN connection : connection[x].strength = 0

\* C25: the update of an assignDeviceToUser call binds the device to the
\* user and event of that call together with the snapshot that call took;
\* every bound device carries the snapshot of its bound user; and when a
\* call resolves, the device holds the binding and snapshot of that call, or
\* those of a concurrent call on the device that has updated it
C25_BindingAndSnapshot ==
  [][ /\ \A d \in DOMAIN nFCDevice' :
           nFCDevice'[d].userId # NoId
           => nFCDevice'[d].nfcData = nFCDevice'[d].userId
      /\ \A c \in DOMAIN assignment :
           LET req == assignment[c]
               own == [userId |-> req.userId, eventId |-> req.eventId,
                       nfcData |-> req.userId]
           IN /\ req.pc = "update"
                   /\ assignment'[c].pc = "sendDeviceConfiguration"
                 => nFCDevice'[req.deviceId] = own
              /\ req.pc = "sendDeviceConfiguration"
                   /\ assignment'[c].outcome = "ok"
                 => \/ nFCDevice'[req.deviceId] = own
                    \/ \E b \in DOMAIN assignment \ {c} :
                         /\ assignment[b].deviceId = req.deviceId
                         /\ assignment[b].pc \in {"sendDeviceConfiguration",
                                                 "done"}
                         /\ assignment[b].outcome # "error"
                         /\ nFCDevice'[req.deviceId] =
                              [userId |-> assignment[b].userId,
                               eventId |-> assignment[b].eventId,
                               nfcData |-> assignment[b].userId]
    ]_vars

\* two calls for the same device and different users have both resolved,
\* and the device, which u2 wore, is bound to the user of one of them with
\* that user's snapshot
C25_Witness ==
  \E c, b \in DOMAIN assignment :
    /\ assignment[c].outcome = "ok"
    /\ assignment[b].outcome = "ok"
    /\ assignment[c].deviceId = assignment[b].deviceId
    /\ assignment[c].userId # assignment[b].userId
    /\ nFCDevice[assignment[c].deviceId].userId = assignment[c].userId
    /\ nFCDevice[assignment[c].deviceId].eventId = assignment[c].eventId
    /\ nFCDevice[assignment[c].deviceId].nfcData = assignment[c].userId

\* C26: isScanning is true exactly while a technology request obtained by
\* startScanning is outstanding: it becomes true only when requestTechnology
\* has succeeded, it is false when startScanning has returned false, when
\* stopScanning has returned, when a discovered tag has been handled and
\* after the session-closed event, and with no call running it is true
\* exactly when a request is outstanding
C26_ScanningFlag ==
  [][ /\ isScanning' /\ ~isScanning => technology'
      /\ \A p \in DOMAIN scan :
           scan'[p] # scan[p] /\ scan'[p].pc = "done"
           => /\ scan'[p].op = "startScanning" /\ scan'[p].result = "false"
                   => ~isScanning'
              /\ scan'[p].op \in {"stopScanning", "tagDiscovered"}
                   => ~isScanning'
      /\ scan' = scan /\ technology /\ ~technology' => ~isScanning'
      /\ (\A p \in DOMAIN scan : scan'[p].pc = "done")
           => isScanning' = technology'
    ]_vars

\* C27: after a handshake between X and Y in event E whose transaction has
\* committed, the edges X->Y and Y->X exist and are scoped to E, so that the
\* connection count of each of the two users for E includes the other
C27_EdgesScopedToEvent ==
  [][ \A h \in DOMAIN handler :
        /\ handler[h].pc = "createConnection"
        /\ handler'[h].pc = "count"
        /\ connection' # connection
        => LET x == handler[h].user1
               y == handler[h].user2
           IN /\ connection'[<<x, y>>].strength >= 1
              /\ connection'[<<y, x>>].strength >= 1
              /\ connection'[<<x, y>>].eventContext = handler[h].eventId
              /\ connection'[<<y, x>>].eventContext = handler[h].eventId
    ]_vars

\* C28: a spend that is rejected (wallet missing, insufficient balance,
\* daily limit, vendor missing or rejecting tokens, product missing,
\* unavailable or out of stock) leaves every balance, every stock, the
\* ledger and the spending records as they were: the step that rejects it
\* writes nothing, and neither does any step of a spend before its
\* transaction
C28_RejectedSpendWritesNothing ==
  [][ \A t \in DOMAIN task :
        /\ task'[t] # task[t]
        /\ task'[t].op \in {"spendTokens", "processNFCPayment"}
        /\ \/ task[t].pc # "transaction"
           \/ task'[t].outcome \in
                {"WalletNotFound", "InsufficientBalance", "DailyLimitExceeded",
                 "VendorNotFound", "VendorRejectsTokens", "ProductNotFound",
                 "ProductUnavailable", "InsufficientStock"}
        => /\ digitalWallet' = digitalWallet
           /\ vendorProduct' = vendorProduct
           /\ tokenTransaction' = tokenTransaction
           /\ festivalSpending' = festivalSpending
    ]_vars

\* a spend has been rejected for the stock of its product by a user who had
\* spent before: the earlier spend is all there is in the records
C28_Witness ==
  \E t \in DOMAIN task :
    /\ task[t].op = "spendTokens"
    /\ task[t].pc = "done"
    /\ task[t].outcome = "InsufficientStock"
    /\ Len(festivalSpending[task[t].userId]) = 1
    /\ digitalWallet[task[t].userId].tokenBalance > 0

\* C29: a device payment never debits the wallet of a user other than the
\* authenticated requester: a payment requested through the route changes a
\* balance only when the device is bound to the user who made the request
C29_PaymentDebitsRequester ==
  [][ \A t \in DOMAIN task :
        /\ task[t].op = "processNFCPayment"
        /\ task[t].requester # NoId
        /\ task'[t] # task[t]
        /\ digitalWallet' # digitalWallet
        => /\ nFCDevice[task[t].deviceId].userId = task[t].requester
           /\ \A u \in DOMAIN digitalWallet \ {task[t].requester} :
                digitalWallet'[u] = digitalWallet[u]
    ]_vars

\* C30: a HANDSHAKE that names no target device, or in which either device
\* is unknown or has no bound user, creates no connection edge, unlocks no
\* achievement, publishes no device feedback and records no Interaction row
\* of type CONNECTION_MADE
C30_FailedHandshakeLeavesNothing ==
  [][ \A h \in DOMAIN handler :
        LET r == IF handler[h].pc = "done" THEN handler'[h] ELSE handler[h]
            unbound(d) == \/ d \notin DOMAIN nFCDevice
                          \/ nFCDevice[d].userId = NoId
        IN /\ handler'[h] # handler[h]
           /\ r.type = "HANDSHAKE"
           /\ \/ r.targetDeviceId = NoId
              \/ unbound(r.deviceId)
              \/ unbound(r.targetDeviceId)
           => /\ connection' = connection
              /\ userAchievement' = userAchievement
              /\ handshakeFeedback' = handshakeFeedback
              /\ \A row \in BagToSet(interaction') :
                   row.type = "CONNECTION_MADE"
                   => CopiesIn(row, interaction') = CopiesIn(row, interaction)
    ]_vars

====
